---- MODULE Spec2Model ----
(***************************************************************************)
(* A model of the twotwotwo/sorts (radixsort) package: the comparison      *)
(* core (qSort, heapSort), the serial MSD radix sorts behind ByNumber,     *)
(* ByString and ByBytes with their post-sort scan, and the goroutine       *)
(* scheduler parallelSort.                                                 *)
(*                                                                         *)
(* Arrays are functions over 0..n-1, as in the Go code.  An item is its    *)
(* key: a tuple of bytes, most significant first.  A uint64 key is a tuple *)
(* of exactly 8 bytes, so that the full 64-bit width is kept.              *)
(***************************************************************************)
EXTENDS Integers, Sequences, FiniteSets, TLC

VARIABLES
    alg,          \* the sort called: ByNumber, ByString, ByBytes, qSort, heapSort
    lessKind,     \* which Less the handle implements
    qSortCutoff,  \* var qSortCutoff
    input,        \* the array handed to the entry point
    range,        \* <<a, b>>: the range [a, b) the call is to sort
    initShift,    \* the shift radixSortUint64 is called with, when it is called
                  \* directly
    data,         \* the array as it is now
    pending,      \* the Swap calls the running sort has still to make
    spc,          \* where the entry point is
    panicMsg,     \* the message the call panicked with, or "none"
    adversary,    \* the keys and the candidate of adversaryTestingData
    rounds,       \* the calls of radixSortString and the rounds of quickSort's
                  \* loop in the pass: <<what, a, b>> and the depth
    \* parallelSort
    MaxProcs,     \* var MaxProcs
    MinParallel,  \* var MinParallel
    MinOffload,   \* var MinOffload
    BufferRatio,  \* var BufferRatio, in tenths
    gomaxprocs,   \* what runtime.GOMAXPROCS(0) returns
    max,          \* the local max of parallelSort: how many goroutines it starts
    sorts,        \* the channel: [state, cap, buf]
    wg,           \* the counter of the sync.WaitGroup
    stack,        \* per thread, the calls of sorter in progress, innermost last
    wpc,          \* per worker goroutine, where doSortWork is
    cpc,          \* where the caller of parallelSort is
    \* package index
    idx,          \* the Index: [Keys, Summary, Data, kind]
    find,         \* the last Find or Compare call: [op, key, item, summary, result],
                  \* summary telling whether it was made with a Summary, item
                  \* holding the second operand of a Compare
    \* the keys of the floats
    less          \* the call of Float32Less or Float64Less: [bits, f, g, keys, result]

parVars == <<MaxProcs, MinParallel, MinOffload, BufferRatio, gomaxprocs, max, sorts, wg,
             stack, wpc, cpc>>

idxVars == <<idx, find>>

keyVars == <<less>>

sortVars == <<alg, lessKind, qSortCutoff, input, range, initShift, data, pending, spc, panicMsg,
              adversary, rounds>>

-----------------------------------------------------------------------------
(* Bounds of the model *)

\* longest array of the exhaustive input family
MaxLen == 4
\* length of the arrays of the second family, long enough for doPivot
LongLen == 8
\* length of the arrays parallelSort is run on
ParLen == 4
\* the most goroutines parallelSort starts (the largest GOMAXPROCS)
MaxWorkers == 2

\* the exported sorts that end with a scan of their result
EntryPoints == {"ByNumber", "ByString", "ByBytes"}

-----------------------------------------------------------------------------
(* Go arithmetic *)

\* Go's integer division truncates toward zero
GoDiv(x, y) == IF x >= 0 THEN x \div y ELSE -((-x) \div y)

min(a, b) == IF a < b THEN a ELSE b

RECURSIVE Pow2(_)
Pow2(e) == IF e = 0 THEN 1 ELSE 2 * Pow2(e - 1)

\* number of bits needed to write n: the loop  for i := n; i > 0; i >>= 1
RECURSIVE BitLen(_)
BitLen(n) == IF n > 0 THEN 1 + BitLen(n \div 2) ELSE 0

-----------------------------------------------------------------------------
(* Keys and the handle's methods *)

\* data.Len()
DataLen(d) == Cardinality(DOMAIN d)

\* bytes.Compare(x, y) < 0, which is also Go's string < and, on 8-byte
\* tuples, uint64 <
KeyLess(x, y) ==
    \/ \E i \in 1..min(Len(x), Len(y)) :
          /\ x[i] < y[i]
          /\ \A j \in 1..(i - 1) : x[j] = y[j]
    \/ /\ Len(x) < Len(y)
       /\ \A j \in 1..Len(x) : x[j] = y[j]

\* StringKey and BytesKey: the first 8 bytes of key, most significant first,
\* zeros after its end
StringKey(key) == [j \in 1..8 |-> IF j <= Len(key) THEN key[j] ELSE 0]

\* data.Key(i).  The items of the number and string handles are their keys;
\* an item of an Index is the pair of Keys[i] and the item i of Data, which
\* Index.Swap moves together, and Index.Key(i) is Keys[i].
Key(d, i) == IF lessKind = "index" THEN d[i].key ELSE d[i]

\* adversaryTestingData before its first Less: keys[i] is the key frozen for
\* index i, -1 while the map has none; candidate is the index to freeze next
NoKeys(d) == [keys |-> [i \in DOMAIN d |-> -1], candidate |-> 0]

\* the first statement of the adversary's Less: when neither index has a key,
\* the candidate, or else j, gets the key len(d.keys)
adversary_freeze(adv, i, j) ==
    IF adv.keys[i] = -1 /\ adv.keys[j] = -1
    THEN IF i = adv.candidate
         THEN [adv EXCEPT !.keys[i] = Cardinality({k \in DOMAIN adv.keys : adv.keys[k] # -1})]
         ELSE [adv EXCEPT !.keys[j] = Cardinality({k \in DOMAIN adv.keys : adv.keys[k] # -1})]
    ELSE adv

\* what the adversary's Less(i, j) returns once the keys are adv.keys
adversary_return(adv, i, j) ==
    IF adv.keys[i] = -1 THEN FALSE
    ELSE IF adv.keys[j] = -1 THEN TRUE
    ELSE adv.keys[i] >= adv.keys[j]

\* the candidate it leaves
adversary_candidate(adv, i, j) ==
    IF adv.keys[i] = -1 THEN [adv EXCEPT !.candidate = i]
    ELSE IF adv.keys[j] = -1 THEN [adv EXCEPT !.candidate = j]
    ELSE adv

\* The Less method of the handle.  "valid" is the Less of IntSlice,
\* StringSlice, ...; "unsortable" and "miskeyed" are the handles of
\* TestSortCheck; "adversary" is adversaryTestingData, whose Less goes by
\* the indexes and the keys it has frozen; "index" is Index.Less over a
\* StringSlice or a BytesSlice: by Keys, and by Data.Less where those are equal.
Less(d, i, j) ==
    CASE lessKind = "valid"      -> KeyLess(d[i], d[j])
      [] lessKind = "unsortable" -> j % 2 = 1
      [] lessKind = "miskeyed"   -> KeyLess(d[j], d[i])
      [] lessKind = "adversary"  -> adversary_return(adversary_freeze(adversary, i, j), i, j)
      [] lessKind = "index"      -> \/ KeyLess(d[i].key, d[j].key)
                                    \/ d[i].key = d[j].key /\ KeyLess(d[i].item, d[j].item)

\* The sorts change the array through Swap alone.  st.d is the array,
\* st.log the Swap calls made so far, st.adv the adversary's keys and
\* candidate, st.ev the rounds of quickSort's loop so far.
SwapArray(d, i, j) == [d EXCEPT ![i] = d[j], ![j] = d[i]]

Swap(st, i, j) == [st EXCEPT !.d = SwapArray(st.d, i, j), !.log = Append(st.log, <<i, j>>)]

\* data.Less(i, j) called in the state st of a sort: what it returns
LessIn(st, i, j) ==
    IF lessKind = "adversary"
    THEN adversary_return(adversary_freeze(st.adv, i, j), i, j)
    ELSE Less(st.d, i, j)

\* and the state it leaves: only the adversary's Less changes anything; when
\* doPivot is called by itself, st.ev notes the indexes Less is called with
Asked(st, i, j) ==
    IF lessKind = "adversary"
    THEN [st EXCEPT !.adv = adversary_candidate(adversary_freeze(st.adv, i, j), i, j)]
    ELSE IF alg = "doPivot" THEN [st EXCEPT !.ev = Append(@, <<"Less", i, j>>)]
    ELSE st

-----------------------------------------------------------------------------
(* The comparison core *)

RECURSIVE insertionSort_inner(_, _, _)
insertionSort_inner(st, a, j) ==
    IF j > a
    THEN IF LessIn(st, j, j - 1)
         THEN insertionSort_inner(Swap(Asked(st, j, j - 1), j, j - 1), a, j - 1)
         ELSE Asked(st, j, j - 1)
    ELSE st

\* (l holds what an iteration of the loop finds: the state of the sort in
\* l.st and the loop's variable in l.i)
RECURSIVE insertionSort_outer(_, _, _)
insertionSort_outer(l, a, b) ==
    IF l.i < b
    THEN insertionSort_outer([st |-> insertionSort_inner(l.st, a, l.i), i |-> l.i + 1], a, b)
    ELSE l.st

\* a faulty insertion sort: the item at a+1 is never inserted
insertionSort_skipFirst(st, a, b) == insertionSort_outer([st |-> st, i |-> a + 2], a, b)

insertionSort(st, a, b) == insertionSort_outer([st |-> st, i |-> a + 1], a, b)

RECURSIVE siftDown_loop(_, _, _, _)
\* the end of a round, once the child is chosen
siftDown_swap(st, root, child, hi, first) ==
    IF ~LessIn(st, first + root, first + child)
    THEN Asked(st, first + root, first + child)
    ELSE siftDown_loop(Swap(Asked(st, first + root, first + child), first + root, first + child),
                       child, hi, first)

siftDown_loop(st, root, hi, first) ==
    LET child == 2 * root + 1 IN
    IF child >= hi THEN st
    ELSE IF child + 1 < hi
         THEN siftDown_swap(Asked(st, first + child, first + child + 1), root,
                            IF LessIn(st, first + child, first + child + 1)
                            THEN child + 1 ELSE child,
                            hi, first)
         ELSE siftDown_swap(st, root, child, hi, first)

siftDown(st, lo, hi, first) == siftDown_loop(st, lo, hi, first)

RECURSIVE heapSort_build(_, _, _)
heapSort_build(l, hi, first) ==
    IF l.i >= 0
    THEN heapSort_build([st |-> siftDown(l.st, l.i, hi, first), i |-> l.i - 1], hi, first)
    ELSE l.st

RECURSIVE heapSort_pop(_, _, _)
heapSort_pop(l, lo, first) ==
    IF l.i >= 0
    THEN heapSort_pop([st |-> siftDown(Swap(l.st, first, first + l.i), lo, l.i, first),
                       i |-> l.i - 1], lo, first)
    ELSE l.st

heapSort(st, a, b) ==
    LET first == a
        lo == 0
        hi == b - a
    IN heapSort_pop([st |-> heapSort_build([st |-> st, i |-> GoDiv(hi - 1, 2)], hi, first),
                     i |-> hi - 1], lo, first)

\* med is the index returned, st the state the calls of Less leave; c2 is
\* asked for only when c0 = c1
medianOfThree(st, a, b, c) ==
    IF LessIn(st, a, b) # LessIn(Asked(st, a, b), a, c)
    THEN [st |-> Asked(Asked(st, a, b), a, c), med |-> a]
    ELSE [st  |-> Asked(Asked(Asked(st, a, b), a, c), b, c),
          med |-> IF LessIn(Asked(st, a, b), a, c) # LessIn(Asked(Asked(st, a, b), a, c), b, c)
                  THEN c ELSE b]

RECURSIVE swapRange_loop(_, _, _, _)
swapRange_loop(l, a, b, n) ==
    IF l.i < n
    THEN swapRange_loop([st |-> Swap(l.st, a + l.i, b + l.i), i |-> l.i + 1], a, b, n)
    ELSE l.st

swapRange(st, a, b, n) == swapRange_loop([st |-> st, i |-> 0], a, b, n)

\* the first inner loop of doPivot: skip the items below the pivot, gather
\* the items equal to it on the left
RECURSIVE doPivot_left(_, _, _, _, _)
doPivot_left(st, pivot, a, b, c) ==
    IF b < c
    THEN IF LessIn(st, b, pivot) THEN doPivot_left(Asked(st, b, pivot), pivot, a, b + 1, c)
         ELSE IF ~LessIn(Asked(st, b, pivot), pivot, b)
              THEN doPivot_left(Swap(Asked(Asked(st, b, pivot), pivot, b), a, b),
                                pivot, a + 1, b + 1, c)
              ELSE [st |-> Asked(Asked(st, b, pivot), pivot, b), a |-> a, b |-> b]
    ELSE [st |-> st, a |-> a, b |-> b]

\* the second inner loop: the same from the right
RECURSIVE doPivot_right(_, _, _, _, _)
doPivot_right(st, pivot, b, c, d) ==
    IF b < c
    THEN IF LessIn(st, pivot, c - 1)
         THEN doPivot_right(Asked(st, pivot, c - 1), pivot, b, c - 1, d)
         ELSE IF ~LessIn(Asked(st, pivot, c - 1), c - 1, pivot)
              THEN doPivot_right(Swap(Asked(Asked(st, pivot, c - 1), c - 1, pivot), c - 1, d - 1),
                                 pivot, b, c - 1, d - 1)
              ELSE [st |-> Asked(Asked(st, pivot, c - 1), c - 1, pivot), c |-> c, d |-> d]
    ELSE [st |-> st, c |-> c, d |-> d]

\* the end of a round of the outer loop: stop when b meets c, else swap the
\* two items the inner loops stopped at and go round again
RECURSIVE doPivot_loop(_, _, _, _, _, _)
doPivot_round(l, r, pivot) ==
    IF l.b >= r.c
    THEN [st |-> r.st, a |-> l.a, b |-> l.b, c |-> r.c, d |-> r.d]
    ELSE doPivot_loop(Swap(r.st, l.b, r.c - 1), pivot, l.a, l.b + 1, r.c - 1, r.d)

doPivot_loop(st, pivot, a, b, c, d) ==
    LET l == doPivot_left(st, pivot, a, b, c)
    IN doPivot_round(l, doPivot_right(l.st, pivot, l.b, c, d), pivot)

\* Tukey's ninther: p1, p2, p3 are the medians of three found so far
doPivot_last(p3, m1, m2) == medianOfThree(p3.st, m1, m2, p3.med)

doPivot_third(p2, m1, hi, s) ==
    doPivot_last(medianOfThree(p2.st, hi - 1, hi - 1 - s, hi - 1 - 2 * s), m1, p2.med)

doPivot_second(p1, m, hi, s) ==
    doPivot_third(medianOfThree(p1.st, m, m - s, m + s), p1.med, hi, s)

\* data.Swap(lo, medianOfThree(data, m1, m2, m3))
doPivot_pivot(p, lo) == Swap(p.st, lo, p.med)

\* the choice of the pivot, swapped to lo
doPivot_choose(st, lo, hi) ==
    LET m == lo + GoDiv(hi - lo, 2)
        s == GoDiv(hi - lo, 8)
    IN doPivot_pivot(IF hi - lo > 40
                     THEN doPivot_second(medianOfThree(st, lo, lo + s, lo + 2 * s), m, hi, s)
                     ELSE medianOfThree(st, lo, m, hi - 1),
                     lo)

\* a faulty end: the "= pivot" sections are left at the two ends
doPivot_swaps_none(p, lo, hi) ==
    [st |-> p.st, midlo |-> lo + p.b - p.a, midhi |-> hi - (p.d - p.c)]

\* after the loop p: the "= pivot" sections are swapped into the middle
doPivot_swaps(p, lo, hi) ==
    LET n1 == min(p.b - p.a, p.a - lo)
        n2 == min(hi - p.d, p.d - p.c)
    IN [st |-> swapRange(swapRange(p.st, lo, p.b - n1, n1), p.c, hi - n2, n2),
        midlo |-> lo + p.b - p.a,
        midhi |-> hi - (p.d - p.c)]

doPivot(st, lo, hi) ==
    doPivot_swaps(doPivot_loop(doPivot_choose(st, lo, hi), lo, lo + 1, lo + 1, hi, hi), lo, hi)

\* st.ev notes what doPivot(lo, hi) returned
doPivot_returned(p, lo, hi) ==
    [p.st EXCEPT !.ev = Append(@, <<"returned", lo, hi, p.midlo, p.midhi>>)]

\* the smaller side of the partition p is sorted by a recursive call, the
\* larger by the next round of the loop
RECURSIVE quickSort(_, _, _, _)
quickSort_sides(p, a, b, maxDepth) ==
    IF p.midlo - a < b - p.midhi
    THEN quickSort(quickSort(p.st, a, p.midlo, maxDepth), p.midhi, b, maxDepth)
    ELSE quickSort(quickSort(p.st, p.midhi, b, maxDepth), a, p.midlo, maxDepth)

\* st.ev notes each round of the loop: the range and what is called on it
quickSort(st, a, b, maxDepth) ==
    IF b - a > 7
    THEN IF maxDepth = 0
         THEN heapSort([st EXCEPT !.ev = Append(@, <<"heapSort", a, b>>)], a, b)
         ELSE quickSort_sides(doPivot([st EXCEPT !.ev = Append(@, <<"doPivot", a, b>>)], a, b),
                              a, b, maxDepth - 1)
    ELSE IF b - a > 1 THEN insertionSort(st, a, b) ELSE st

\* a faulty qSort: two more rounds before heapSort
qSort_deeper(st, a, b) == quickSort(st, a, b, 2 * BitLen(b - a) + 2)

qSort(st, a, b) == quickSort(st, a, b, 2 * BitLen(b - a))

-----------------------------------------------------------------------------
(* uint64 keys: tuples of 8 bytes, most significant first *)

radix == 8
mask == 255
maxRadixDepth == 32

Zero64 == <<0, 0, 0, 0, 0, 0, 0, 0>>

\* the byte of k of significance j (0 is the lowest); bits past the 64th are 0
ByteAt(k, j) == IF j \in 0..7 THEN k[8 - j] ELSE 0

\* (k >> shift) & mask
Digit(k, shift) ==
    LET q == shift \div 8
        r == shift % 8
    IN ((ByteAt(k, q + 1) * 256 + ByteAt(k, q)) \div Pow2(r)) % (mask + 1)

\* k >> shift on 64 bits
ShiftRight64(k, shift) == [i \in 1..8 |-> Digit(k, shift + 8 * (8 - i))]

RECURSIVE XorBits(_, _, _)
XorBits(x, y, n) ==
    IF n = 0 THEN 0
    ELSE ((x + y) % 2) + 2 * XorBits(x \div 2, y \div 2, n - 1)

\* x ^ y
Xor64(x, y) == [i \in 1..8 |-> XorBits(x[i], y[i], 8)]

\* the number of times k can be shifted right before it is 0:
\*   for diff != 0 { log2diff++; diff >>= 1 }
Log2Diff(k) ==
    IF k = Zero64 THEN 0
    ELSE LET i == CHOOSE i \in 1..8 : k[i] # 0 /\ \A j \in 1..(i - 1) : k[j] = 0
         IN 8 * (8 - i) + BitLen(k[i])

\* the smallest and the largest of a non-empty set of keys
MinKey(ks) == CHOOSE k \in ks : \A o \in ks : ~KeyLess(o, k)
MaxKey(ks) == CHOOSE k \in ks : \A o \in ks : ~KeyLess(k, o)

ZeroTbl == [i \in 0..mask |-> 0]

\* The loops over the 256 buckets do nothing at an empty bucket (its start
\* is its end, and pos does not move), so they are run over the buckets that
\* hold something, in ascending order; bucket 0 is always visited, because
\* it is the one that meets the initial value of pos.
Visited(counts) == {0} \cup {k \in 0..mask : counts[k] > 0}

FirstOf(todo) == CHOOSE k \in todo : \A o \in todo : k <= o

\* sum of counts[0..k)
RECURSIVE SumBelow(_, _, _)
SumBelow(counts, todo, k) ==
    IF todo = {} \/ FirstOf(todo) >= k THEN 0
    ELSE counts[FirstOf(todo)] + SumBelow(counts, todo \ {FirstOf(todo)}, k)

\* turn the counts into each bucket's start and end:
\*   pos := a
\*   for i, c := range bucketStarts { bucketStarts[i] = pos; pos += c; bucketEnds[i] = pos }
\* (the tables are kept for the visited buckets alone)
bucketOffsets(counts, a) ==
    LET v == Visited(counts)
        starts == [i \in v |-> a + SumBelow(counts, v, i)]
    IN [starts |-> starts,
        ends   |-> [i \in v |-> starts[i] + counts[i]],
        pos    |-> a + SumBelow(counts, v, mask + 1)]

-----------------------------------------------------------------------------
(* The integer radix sort *)

guessIntShift(d) ==
    LET l == DataLen(d) IN
    IF l < qSortCutoff THEN 64 - radix
    ELSE LET step0 == l \div 32
             step == IF step0 = 0 THEN 1 ELSE step0
             ks == {Key(d, l - 1)} \cup {Key(d, i) : i \in {j \in 0..(l - 1) : j % step = 0}}
             diff == Xor64(MinKey(ks), MaxKey(ks))
             log2diff0 == Log2Diff(diff)
             log2diff == IF log2diff0 < 64 THEN log2diff0 + 1 ELSE log2diff0
             shiftGuess == log2diff - radix
         IN IF shiftGuess < 0 THEN 0 ELSE shiftGuess

\* the swapping pass over one bucket:  for i < bucketEnd { ... }
\* (the iterations that find consecutive items in their bucket already, each
\* of which does i++ and bucketStarts[destBucket]++, are taken together: they
\* end at inPlaceEnd, the next position whose item belongs elsewhere)
inPlaceEnd(d, shift, curBucket, i, bucketEnd) ==
    CHOOSE j \in (i + 1)..bucketEnd :
        /\ j = bucketEnd \/ Digit(Key(d, j), shift) # curBucket
        /\ \A k \in i..(j - 1) : Digit(Key(d, k), shift) = curBucket

RECURSIVE permuteUint64_bucket(_, _, _, _, _, _)
permuteUint64_bucket(st, starts, shift, curBucket, i, bucketEnd) ==
    IF i < bucketEnd
    THEN LET destBucket == Digit(Key(st.d, i), shift) IN
         IF destBucket = curBucket
         THEN permuteUint64_bucket(
                  st,
                  [starts EXCEPT ![destBucket] = @ + inPlaceEnd(st.d, shift, curBucket, i, bucketEnd) - i],
                  shift, curBucket, inPlaceEnd(st.d, shift, curBucket, i, bucketEnd), bucketEnd)
         ELSE permuteUint64_bucket(Swap(st, i, starts[destBucket]),
                                   [starts EXCEPT ![destBucket] = @ + 1],
                                   shift, curBucket, i, bucketEnd)
    ELSE [st |-> st, starts |-> starts]

\* for curBucket, bucketEnd := range bucketEnds { ... }
RECURSIVE permuteUint64(_, _, _, _, _)
permuteUint64(st, starts, ends, shift, todo) ==
    IF todo = {} THEN [st |-> st, starts |-> starts]
    ELSE LET curBucket == FirstOf(todo)
             r == permuteUint64_bucket(st, starts, shift, curBucket,
                                       starts[curBucket], ends[curBucket])
         IN permuteUint64(r.st, r.starts, ends, shift, todo \ {curBucket})

\* shift == 0:  for _, end := range bucketEnds { if end > pos+1 { qSort } }
\* (pos is still what the loop over the counts left it at)
\* (l.st is the state of the sort and l.pos is pos, as an iteration finds them)
RECURSIVE radixSortUint64_dupes(_, _, _)
radixSortUint64_dupes(l, ends, todo) ==
    IF todo = {} THEN l.st
    ELSE LET i == FirstOf(todo) IN
         IF ends[i] > l.pos + 1
         THEN radixSortUint64_dupes(
                  [st |-> qSort([l.st EXCEPT !.ev = Append(@, <<"dupes", l.pos, ends[i]>>)],
                                l.pos, ends[i]),
                   pos |-> ends[i]],
                  ends, todo \ {i})
         ELSE radixSortUint64_dupes([st |-> l.st, pos |-> ends[i]], ends, todo \ {i})

\* the counting pass, which also finds the smallest and the largest key:
\*   for i := a; i < b; i++ { ... }
\* what the loop leaves: in counts[v] the number of the keys with digit v, in
\* min and max the least and the greatest key of [a, b)
radixSortUint64_count(d, shift, a, b) ==
    LET digit == [i \in a..(b - 1) |-> Digit(Key(d, i), shift)]
        found == {digit[i] : i \in a..(b - 1)}
    IN
    [counts |-> [v \in 0..mask |-> IF v \in found
                                   THEN Cardinality({i \in a..(b - 1) : digit[i] = v})
                                   ELSE 0],
     min |-> MinKey({Key(d, i) : i \in a..(b - 1)}),
     max |-> MaxKey({Key(d, i) : i \in a..(b - 1)})]

\* a faulty test: a shift that is too high goes unnoticed
wrongShift_tooLow(diff, shift) == ShiftRight64(diff, shift + radix) # Zero64

\* a faulty test: a shift that is too low goes unnoticed
wrongShift_tooHigh(diff, shift) == ShiftRight64(diff, shift) = Zero64

\* diff>>shift == 0 || diff>>(shift+radix) != 0
wrongShift(diff, shift) ==
    ShiftRight64(diff, shift) = Zero64 \/ ShiftRight64(diff, shift + radix) # Zero64

\* st.ev notes each pass that restarts: its range, its shift, the new shift
\* and the keys of the range
radixSortUint64_restart(st, shift, nextShift, a, b) ==
    [st EXCEPT !.ev = Append(@, <<"restart", [a |-> a, b |-> b, shift |-> shift,
                                              nextShift |-> nextShift,
                                              keys |-> {Key(st.d, i) : i \in a..(b - 1)}]>>)]

\* and each pass that permutes, when the permutation is over: its range, its
\* shift, the keys of the range, the tables as the loop over the counts left
\* them, the cursors (bucketStarts) as the permutation left them, the calls
\* of Swap it made and the digit of the item at each place of the range
radixSortUint64_permuted(p, swapsBefore, tbl, shift, a, b) ==
    [p.st EXCEPT !.ev = Append(@, <<"permuted",
        [a |-> a, b |-> b, shift |-> shift,
         keys |-> {Key(p.st.d, i) : i \in a..(b - 1)},
         starts |-> tbl.starts, ends |-> tbl.ends, cursors |-> p.starts,
         swaps |-> SubSeq(p.st.log, swapsBefore + 1, Len(p.st.log)),
         digits |-> [i \in a..(b - 1) |-> Digit(Key(p.st.d, i), shift)]]>>)]

\* the sorts of the buckets, after the permutation
RECURSIVE radixSortUint64_recurse(_, _, _, _, _)
RECURSIVE radixSortUint64(_, _, _, _)
RECURSIVE radixSortUint64_buckets(_, _, _, _)
radixSortUint64_buckets(l, ends, nextShift, todo) ==
    IF todo = {} THEN l.st
    ELSE LET i == FirstOf(todo) IN
         IF ends[i] > l.pos + 1
         THEN radixSortUint64_buckets(
                  [st |-> radixSortUint64(l.st, nextShift, l.pos, ends[i]), pos |-> ends[i]],
                  ends, nextShift, todo \ {i})
         ELSE radixSortUint64_buckets([st |-> l.st, pos |-> ends[i]], ends, nextShift, todo \ {i})

radixSortUint64(st, shift, a, b) ==
    IF b - a < qSortCutoff THEN qSort(st, a, b)
    ELSE
    LET c == radixSortUint64_count(st.d, shift, a, b)
        counts == c.counts
        diff == Xor64(c.min, c.max)
    IN
    IF diff = Zero64 THEN qSort(st, a, b)
    ELSE IF wrongShift(diff, shift)
    THEN LET nextShift == Log2Diff(diff) - radix
         IN radixSortUint64(
                radixSortUint64_restart(st, shift, IF nextShift < 0 THEN 0 ELSE nextShift, a, b),
                IF nextShift < 0 THEN 0 ELSE nextShift, a, b)
    ELSE
    LET tbl == bucketOffsets(counts, a)
    IN radixSortUint64_recurse(
           radixSortUint64_permuted(
               permuteUint64(st, tbl.starts, tbl.ends, shift, Visited(counts)),
               Len(st.log), tbl, shift, a, b),
           tbl, shift, a, Visited(counts))

radixSortUint64_recurse(st, tbl, shift, a, todo) ==
    IF shift = 0
    THEN radixSortUint64_dupes([st |-> st, pos |-> tbl.pos], tbl.ends, todo)
    ELSE radixSortUint64_buckets([st |-> st, pos |-> a], tbl.ends,
                                 IF shift < radix THEN 0 ELSE shift - radix, todo)

-----------------------------------------------------------------------------
(* The string and []byte radix sorts *)

\* the first pass: swap the too-short keys to the start, count the others
\*   for i := a; i < b; i++ { ... }
\* a faulty test: a key that ends with the byte at offset is too short
tooShort_byOne(k, offset) == Len(k) <= offset + 1

\* if len(k) <= offset
tooShort(k, offset) == Len(k) <= offset

RECURSIVE radixSortString_short(_, _, _, _, _, _)
radixSortString_short(st, offset, a, i, b, counts) ==
    IF i < b
    THEN LET k == Key(st.d, i) IN
         IF tooShort(k, offset)
         THEN radixSortString_short(Swap(st, a, i), offset, a + 1, i + 1, b, counts)
         ELSE radixSortString_short(st, offset, a, i + 1, b,
                                    [counts EXCEPT ![k[offset + 1]] = @ + 1])
    ELSE [st |-> st, a |-> a, counts |-> counts]

\* the loop over the counts returns early at a bucket that holds the whole
\* range:  if bucketStarts[i] == a && bucketEnds[i] == b
sameBucket(counts, a, b) ==
    LET v == Visited(counts) IN
    \E i \in v : /\ SumBelow(counts, v, i) = 0
                 /\ counts[i] = b - a

\* a faulty loop: it ends before its first round
permuteString_bucket_skipped(st, starts, offset, curBucket, i, bucketEnd) ==
    [st |-> st, starts |-> starts]

RECURSIVE permuteString_bucket(_, _, _, _, _, _)
permuteString_bucket(st, starts, offset, curBucket, i, bucketEnd) ==
    IF i < bucketEnd
    THEN LET destBucket == Key(st.d, i)[offset + 1] IN
         IF destBucket = curBucket
         THEN permuteString_bucket(st, [starts EXCEPT ![destBucket] = @ + 1],
                                   offset, curBucket, i + 1, bucketEnd)
         ELSE permuteString_bucket(Swap(st, i, starts[destBucket]),
                                   [starts EXCEPT ![destBucket] = @ + 1],
                                   offset, curBucket, i, bucketEnd)
    ELSE [st |-> st, starts |-> starts]

RECURSIVE permuteString(_, _, _, _, _)
permuteString(st, starts, ends, offset, todo) ==
    IF todo = {} THEN [st |-> st, starts |-> starts]
    ELSE LET curBucket == FirstOf(todo)
             r == permuteString_bucket(st, starts, offset, curBucket,
                                       starts[curBucket], ends[curBucket])
         IN permuteString(r.st, r.starts, ends, offset, todo \ {curBucket})

\* st.ev notes each call of radixSortString: its arguments and the keys of
\* its range
radixSortString_called(st, offset, a, b, depth) ==
    [st EXCEPT !.ev = Append(@, <<"call", [offset |-> offset, a |-> a, b |-> b, depth |-> depth,
                                           keys |-> {Key(st.d, i) : i \in a..(b - 1)}]>>)]

\* the first pass when it is over: the range, where the too-short keys end,
\* the counts that are not 0 and the key at each place of the range
radixSortString_scanned(s, offset, aStart, b) ==
    [s EXCEPT !.st.ev = Append(@, <<"scanned",
        [offset |-> offset, a |-> aStart, shortEnd |-> s.a, b |-> b,
         counts |-> [v \in {u \in 0..mask : s.counts[u] > 0} |-> s.counts[v]],
         keys |-> [i \in aStart..(b - 1) |-> Key(s.st.d, i)]]>>)]

\* the permutation when it is over, as radixSortUint64_permuted has it
radixSortString_permuted(p, swapsBefore, tbl, offset, a, b) ==
    [p EXCEPT !.st.ev = Append(@, <<"permuted",
        [a |-> a, b |-> b, offset |-> offset,
         starts |-> tbl.starts, ends |-> tbl.ends, cursors |-> p.starts,
         swaps |-> SubSeq(p.st.log, swapsBefore + 1, Len(p.st.log)),
         digits |-> [i \in a..(b - 1) |-> Key(p.st.d, i)[offset + 1]]]>>)]

RECURSIVE radixSortString(_, _, _, _, _)
RECURSIVE radixSortString_sorted(_, _, _, _, _)
\* a faulty loop: the buckets are sorted from the byte after the next
RECURSIVE radixSortString_buckets_skipByte(_, _, _, _, _, _)
radixSortString_buckets_skipByte(st, starts, offset, depth, todo, pos) ==
    IF todo = {} THEN st
    ELSE LET i == FirstOf(todo) IN
         radixSortString_buckets_skipByte(
             IF starts[i] > pos + 1
             THEN radixSortString(st, offset + 2, pos, starts[i], depth + 1)
             ELSE st,
             starts, offset, depth, todo \ {i}, starts[i])

\* for _, end := range bucketStarts { if end > pos+1 { radixSortString } }
RECURSIVE radixSortString_buckets(_, _, _, _, _, _)
radixSortString_buckets(st, starts, offset, depth, todo, pos) ==
    IF todo = {} THEN st
    ELSE LET i == FirstOf(todo) IN
         radixSortString_buckets(
             IF starts[i] > pos + 1
             THEN radixSortString(st, offset + 1, pos, starts[i], depth + 1)
             ELSE st,
             starts, offset, depth, todo \ {i}, starts[i])

\* a faulty test of the depth: the radix passes go on past maxRadixDepth
atMaxDepth_never(depth) == FALSE

\* depth == maxRadixDepth
atMaxDepth(depth) == depth = maxRadixDepth

\* st.ev notes each call: its range, its depth, and whether it makes a
\* radix pass or leaves the range to qSort
radixSortString_pass(s, offset, aStart, b, depth) ==
    LET st1 == IF s.a - aStart > 1 THEN qSort(s.st, aStart, s.a) ELSE s.st
        tbl == bucketOffsets(s.counts, s.a)
    IN
    IF sameBucket(s.counts, s.a, b) THEN radixSortString(st1, offset + 1, s.a, b, depth + 1)
    ELSE radixSortString_sorted(
             radixSortString_permuted(
                 permuteString(st1, tbl.starts, tbl.ends, offset, Visited(s.counts)),
                 Len(st1.log), tbl, offset, s.a, b),
             offset, depth, Visited(s.counts), s.a)

radixSortString_sorted(p, offset, depth, todo, pos) ==
    radixSortString_buckets(p.st, p.starts, offset, depth, todo, pos)

radixSortString_entered(st, offset, a, b, depth) ==
    IF b - a < qSortCutoff \/ atMaxDepth(depth)
    THEN qSort([st EXCEPT !.ev = Append(@, <<"qSort", a, b, depth>>)], a, b)
    ELSE radixSortString_pass(
             radixSortString_scanned(
                 radixSortString_short(
                     [st EXCEPT !.ev = Append(@, <<"radixSortString", a, b, depth>>)],
                     offset, a, a, b, ZeroTbl),
                 offset, a, b),
             offset, a, b, depth)

radixSortString(st, offset, a, b, depth) ==
    radixSortString_entered(radixSortString_called(st, offset, a, b, depth), offset, a, b, depth)

\* radixSortBytes is radixSortString line for line, on a []byte key
radixSortBytes(st, offset, a, b, depth) == radixSortString(st, offset, a, b, depth)

-----------------------------------------------------------------------------
(* The post-sort scan of the entry points *)

keyPanicMessage == "sort failed: Key and Less aren't consistent with each other"
keyNumberHelp == " (the [NumberType]Key functions like IntKey may help resolve this)"
panicMessage == "sort failed: could be a data race, a radixsort bug, or a subtle bug in the interface implementation"

\* for i := 1; i < l; i++ { if data.Less(i, i-1) { panic } }
\* The loop started at i stops at the first j >= i with Less(j, j-1), and
\* panics there; "none" when it ends without a panic.
\* a faulty scan: only every other pair of neighbours is compared
checkResults_stride(d, i, keyMessage) ==
    LET stops == {j \in i..(DataLen(d) - 1) : (j - i) % 2 = 0 /\ Less(d, j, j - 1)}
        at == CHOOSE j \in stops : \A k \in stops : j <= k
    IN IF stops = {} THEN "none"
       ELSE IF KeyLess(Key(d, at - 1), Key(d, at)) THEN keyMessage ELSE panicMessage

\* a faulty scan: the two messages are exchanged
checkResults_swapped(d, i, keyMessage) ==
    LET stops == {j \in i..(DataLen(d) - 1) : Less(d, j, j - 1)}
        at == CHOOSE j \in stops : \A k \in stops : j <= k
    IN IF stops = {} THEN "none"
       ELSE IF KeyLess(Key(d, at - 1), Key(d, at)) THEN panicMessage ELSE keyMessage

checkResults(d, i, keyMessage) ==
    LET stops == {j \in i..(DataLen(d) - 1) : Less(d, j, j - 1)}
        at == CHOOSE j \in stops : \A k \in stops : j <= k
    IN IF stops = {} THEN "none"
       ELSE IF KeyLess(Key(d, at - 1), Key(d, at)) THEN keyMessage ELSE panicMessage

Start(d) == [d |-> d, log |-> <<>>, adv |-> adversary, ev |-> <<>>]

\* st.ev notes what guessIntShift returned to ByNumber
Guessed(st, shift) == [st EXCEPT !.ev = Append(@, <<"guessIntShift", shift>>)]

\* SortWithIndex before it sorts: the Keys are filled from the items of Data
\*   for i := 0; i < l; i++ { ...; indices[i] = k }
SortWithIndex_fill(d) == [i \in DOMAIN d |-> [key |-> StringKey(d[i].item), item |-> d[i].item]]

\* the array the sorting pass starts on
Filled(a, d) == IF a = "SortWithIndex" THEN SortWithIndex_fill(d) ELSE d

\* the sorting pass of each entry point; qSort and heapSort are also called
\* on a part [rg[1], rg[2]) of the array, as the radix sorts call them
SortPass(a, d, rg) ==
    CASE a = "ByNumber" -> radixSortUint64(Guessed(Start(d), guessIntShift(d)),
                                           guessIntShift(d), 0, DataLen(d))
      [] a = "ByString" -> radixSortString(Start(d), 0, 0, DataLen(d), 0)
      [] a = "ByBytes"  -> radixSortBytes(Start(d), 0, 0, DataLen(d), 0)
      [] a = "qSort"    -> qSort(Start(d), rg[1], rg[2])
      [] a = "heapSort" -> heapSort(Start(d), rg[1], rg[2])
      [] a = "SortWithIndex" -> radixSortUint64(Start(d), guessIntShift(d), 0, DataLen(d))
      [] a = "radixSortUint64" -> radixSortUint64(Start(d), initShift, rg[1], rg[2])
      [] a = "doPivot"  -> doPivot_returned(doPivot(Start(d), rg[1], rg[2]), rg[1], rg[2])

\* the scan that follows it
\* a faulty scan: every entry point adds the hint about the number keys
ScanResult_hintAlways(a, d) ==
    IF a \in {"ByNumber", "ByString", "ByBytes", "SortWithIndex"}
    THEN checkResults(d, 1, keyPanicMessage \o keyNumberHelp)
    ELSE "none"

ScanResult(a, d) ==
    CASE a \in {"ByNumber", "SortWithIndex"} -> checkResults(d, 1, keyPanicMessage \o keyNumberHelp)
      [] a \in {"ByString", "ByBytes"} -> checkResults(d, 1, keyPanicMessage)
      [] OTHER -> "none"

-----------------------------------------------------------------------------
(* The calls of the sorts *)

\* uint64 keys: 0, 1, 256 and 1<<63
NumKeys == {Zero64, <<0, 0, 0, 0, 0, 0, 0, 1>>, <<0, 0, 0, 0, 0, 0, 1, 0>>,
            <<128, 0, 0, 0, 0, 0, 0, 0>>}
\* string keys: "", "a", "ab", "b"
StrKeys == {<<>>, <<97>>, <<97, 98>>, <<98>>}
\* the keys of the long arrays
LongNumKeys == {<<0, 0, 0, 0, 0, 0, 0, 1>>, <<0, 0, 0, 0, 0, 0, 1, 0>>}
LongStrKeys == {<<97>>, <<97, 98>>}

Arrays(keys, lens) == UNION {[0..(n - 1) -> keys] : n \in lens}

NumArrays == Arrays(NumKeys, 0..MaxLen) \cup Arrays(LongNumKeys, {LongLen})
\* keys with a common prefix longer than maxRadixDepth, as those of
\* TestBrokenPrefix, some of them differing in length alone, as those of
\* TestSortByLength
PrefixLen == 33
Prefix(n) == [i \in 1..n |-> 97]
DeepKeys == {Prefix(PrefixLen), Prefix(PrefixLen + 1), Prefix(PrefixLen + 2),
             Prefix(PrefixLen) \o <<98>>}
DeepLen == 3

StrArrays == Arrays(StrKeys, 0..MaxLen) \cup Arrays(LongStrKeys, {LongLen})
                 \cup Arrays(DeepKeys, 2..DeepLen)

\* qSortCutoff: 1 (forceRadix), one between 1 and the lengths, and the
\* default, which is above every length here as the 1e9 of varyQSortCutoff is
MidCutoff == 3
Cutoffs == {1, MidCutoff, 128}

\* the ranges qSort and heapSort are called on: the whole array, and the
\* array less its first item, its last item, or both
SubRanges(n) == {<<a, b>> \in ({0, 1} \X {n - 1, n}) : a <= b}

\* an array long enough for doPivot to take the ninther (hi - lo > 40), with
\* six keys that repeat
NinLen == 42
NinArray == [i \in 0..(NinLen - 1) |-> <<0, 0, 0, 0, 0, 0, 0, (i + 1) % 6>>]
\* the ranges doPivot is called on
PivotRanges(n) == {rg \in SubRanges(n) : rg[2] - rg[1] >= 2}

LessKinds == {"valid", "unsortable", "miskeyed"}

\* TestBackshift: the one key that differs in a high bit is at index 1; the
\* length is the least at which the sampling of guessIntShift (every
\* (l>>5)th key and the last) skips index 1.  The other keys are 0, but for
\* one that differs in the low byte.
BackLen == 64
BackArray == [i \in 0..(BackLen - 1) |-> IF i = 1 THEN <<128, 0, 0, 0, 0, 0, 0, 0>>
                                         ELSE IF i = 2 THEN <<0, 0, 0, 0, 0, 0, 0, 1>>
                                         ELSE Zero64]
\* TestFwdShift: a high bit varies, the low byte varies, the bytes between
\* them do not
\*   []int{0x40000000, 23, 59, 38, 38, 6, 12, 9, 3, 4, 1, 49, 9, 63}
\* (its first items, with the one pair of equal keys)
FwdLow == <<23, 59, 38, 38, 6>>
FwdArray == [i \in 0..Len(FwdLow) |-> IF i = 0 THEN <<0, 0, 0, 0, 64, 0, 0, 0>>
                                      ELSE <<0, 0, 0, 0, 0, 0, 0, FwdLow[i]>>]
\* (both tests sort under forceRadix, qSortCutoff = 1)
ShiftTests == {BackArray, FwdArray}

\* the calls of radixSortUint64 itself: keys that differ in the low byte,
\* in the second byte, in bit 30 and in bit 63, and shifts from 0 to
\* 64-radix, one of them no multiple of radix
ShiftKeys == NumKeys \cup {<<0, 0, 0, 0, 64, 0, 0, 0>>}
ShiftArrays == Arrays(ShiftKeys, 0..(MaxLen - 1)) \cup {FwdArray}
Shifts == {0, 3, radix, 3 * radix, 64 - radix}

\* TestAdversary: data[i] = i, the length taken so that quickSort runs out
\* of depth
AdvLen == 19
AdvArray == [i \in 0..(AdvLen - 1) |-> <<0, 0, 0, 0, 0, 0, 0, i>>]

\* The Data SortWithIndex is called on: string or []byte items, before any
\* key is filled in (indices := make([]uint64, l)).  The short arrays are
\* below the default qSortCutoff.  The long ones have TieLen items with the
\* same first 7 bytes and the 8th byte 0 or 1, so that their keys differ in
\* the last byte alone.  TieArray(0, x, y) has one item with the 8th byte 1,
\* the last, and before it items of 9 bytes with the 8th byte 0: the first
\* ends in x and the others in y.  TieArray(1, x, y) has equal items of 8
\* bytes with the 8th byte 0, and after them two of 9 bytes with the 8th
\* byte 1, which end in x and in y.  The arrays are taken as they are, and
\* with the first and the last item exchanged.
TieLen == 128
Unkeyed(items) == [i \in DOMAIN items |-> [key |-> Zero64, item |-> items[i]]]
TieArray(tie, x, y) ==
    [i \in 0..(TieLen - 1) |->
        IF tie = 0
        THEN (IF i = 0 THEN Prefix(7) \o <<0, x>>
              ELSE IF i < TieLen - 1 THEN Prefix(7) \o <<0, y>> ELSE Prefix(7) \o <<1>>)
        ELSE (IF i = TieLen - 2 THEN Prefix(7) \o <<1, x>>
              ELSE IF i = TieLen - 1 THEN Prefix(7) \o <<1, y>> ELSE Prefix(7) \o <<0>>)]
TieArrays ==
    UNION {{TieArray(tie, 98, 97), TieArray(tie, 97, 98),
            SwapArray(TieArray(tie, 98, 97), 0, TieLen - 1)} : tie \in {0, 1}}
IndexItems == {<<>>, <<97>>, <<97, 0>>, <<98>>, Prefix(8), Prefix(9), Prefix(8) \o <<98>>,
               Prefix(8) \o <<98, 97>>}
IdxLen == 2
IndexInputs ==
    {Unkeyed(d) : d \in Arrays(IndexItems, 0..IdxLen)}
    \cup {Unkeyed(d) : d \in TieArrays}

\* no Index is in use
IdxIdle ==
    /\ idx = [Keys |-> <<>>, Summary |-> <<>>, Data |-> <<>>, kind |-> "none"]
    /\ find = [op |-> "none", key |-> <<>>, item |-> <<>>, summary |-> FALSE, result |-> <<>>]

\* no float is compared
KeyIdle == less = [bits |-> 0, f |-> <<>>, g |-> <<>>, keys |-> <<>>, result |-> <<>>]

\* parallelSort is not in use
ParIdle ==
    /\ MaxProcs = 1 /\ MinParallel = 0 /\ MinOffload = 0 /\ BufferRatio = 0
    /\ gomaxprocs = 1 /\ max = 0
    /\ sorts = [state |-> "none", cap |-> 0, buf |-> <<>>]
    /\ wg = 0
    /\ stack = <<>>
    /\ wpc = <<>>
    /\ cpc = "idle"

SortInit ==
    /\ alg \in {"ByNumber", "ByString", "ByBytes", "qSort", "heapSort", "SortWithIndex",
                "radixSortUint64"}
    /\ lessKind \in (IF alg = "qSort" THEN LessKinds \cup {"adversary"}
                     ELSE IF alg = "SortWithIndex" THEN {"index"} ELSE LessKinds)
    /\ qSortCutoff \in (IF alg \in {"qSort", "heapSort", "SortWithIndex"} THEN {128}
                        ELSE IF alg = "radixSortUint64" THEN {1}
                        ELSE Cutoffs)
    /\ input \in (IF lessKind = "adversary" THEN NumArrays \cup {AdvArray}
                  ELSE IF alg = "SortWithIndex" THEN IndexInputs
                  ELSE IF alg = "ByNumber"
                  THEN NumArrays \cup (IF lessKind = "valid" /\ qSortCutoff = 1
                                       THEN ShiftTests ELSE {})
                  ELSE IF alg = "radixSortUint64" THEN ShiftArrays
                  ELSE IF alg = "qSort" THEN NumArrays ELSE StrArrays)
    /\ range \in (IF alg \in {"qSort", "heapSort", "radixSortUint64"}
                  THEN SubRanges(DataLen(input))
                  ELSE {<<0, DataLen(input)>>})
    /\ initShift \in (IF alg = "radixSortUint64" THEN Shifts ELSE {0})
    /\ data = input
    /\ pending = <<>>
    /\ spc = "idle"
    /\ panicMsg = "none"
    /\ adversary = NoKeys(input)
    /\ rounds = <<>>
    /\ ParIdle
    /\ IdxIdle
    /\ KeyIdle

\* doPivot called by itself, with a Less that is the order of the keys
PivotInit ==
    /\ alg = "doPivot" /\ lessKind = "valid" /\ qSortCutoff = 128
    /\ input \in NumArrays \cup {NinArray}
    /\ range \in PivotRanges(DataLen(input))
    /\ initShift = 0
    /\ data = input
    /\ pending = <<>>
    /\ spc = "idle"
    /\ panicMsg = "none"
    /\ adversary = NoKeys(input)
    /\ rounds = <<>>
    /\ ParIdle
    /\ IdxIdle
    /\ KeyIdle

\* the entry point is called and runs its sorting pass
Called(st) ==
    /\ pending' = st.log
    /\ adversary' = st.adv
    /\ rounds' = st.ev

Call ==
    /\ spc = "idle"
    /\ data' = Filled(alg, data)
    /\ Called(SortPass(alg, Filled(alg, data), range))
    /\ spc' = "sorting"
    /\ UNCHANGED <<alg, lessKind, qSortCutoff, input, range, initShift, panicMsg>>
    /\ UNCHANGED <<parVars, idxVars, keyVars>>

\* a faulty Swap: item i is overwritten, item j is kept
nextSwap_overwrite(d, sw) == [d EXCEPT ![sw[1]] = d[sw[2]]]

\* the array after the call data.Swap(sw[1], sw[2])
nextSwap(d, sw) == SwapArray(d, sw[1], sw[2])

\* the next data.Swap(i, j) of the sorting pass
SwapStep ==
    /\ spc = "sorting"
    /\ pending # <<>>
    /\ data' = nextSwap(data, Head(pending))
    /\ pending' = Tail(pending)
    /\ UNCHANGED <<alg, lessKind, qSortCutoff, input, range, initShift, spc, panicMsg, adversary, rounds>>
    /\ UNCHANGED <<parVars, idxVars, keyVars>>

\* the sorting pass is over: the scan of the result, then return or panic
Verify ==
    /\ spc = "sorting"
    /\ pending = <<>>
    /\ panicMsg' = ScanResult(alg, data)
    /\ spc' = IF panicMsg' = "none" THEN "returned" ELSE "panicked"
    /\ UNCHANGED <<alg, lessKind, qSortCutoff, input, range, initShift, data, pending, adversary, rounds>>
    /\ UNCHANGED <<parVars, idxVars, keyVars>>

SortNext == Call \/ SwapStep \/ Verify

-----------------------------------------------------------------------------
(* parallelSort *)

\* The sorter step parallelSort is handed, for a task (pos, end, offset).
\* It is modelled as the string radix pass is described: the items of
\* [pos, end) whose key ends at the offset come first, the others follow in
\* the order of their byte at the offset, and every bucket of more than one
\* item becomes a child task at offset+1, passed to the recurse function.
RangeItems(d, t) == [k \in 1..(t.end - t.pos) |-> d[t.pos + k - 1]]

\* -1 stands for a key that has no byte at offset o
digitAt(x, o) == IF Len(x) <= o THEN -1 ELSE x[o + 1]

Digits(d, t) == {digitAt(d[i], t.offset) : i \in t.pos..(t.end - 1)}

bucketOf(d, t, v) == SelectSeq(RangeItems(d, t), LAMBDA x : digitAt(x, t.offset) = v)

LeastOf(vs) == CHOOSE v \in vs : \A u \in vs : v <= u

RECURSIVE bucketsInOrder(_, _, _)
bucketsInOrder(d, t, vs) ==
    IF vs = {} THEN <<>>
    ELSE bucketOf(d, t, LeastOf(vs)) \o bucketsInOrder(d, t, vs \ {LeastOf(vs)})

sorterPass(d, t) ==
    LET new == bucketsInOrder(d, t, Digits(d, t))
    IN [i \in DOMAIN d |-> IF i \in t.pos..(t.end - 1) THEN new[i - t.pos + 1] ELSE d[i]]

RECURSIVE bucketTasks(_, _, _, _)
bucketTasks(d, t, vs, pos) ==
    IF vs = {} THEN <<>>
    ELSE LET v == LeastOf(vs)
             n == Len(bucketOf(d, t, v))
         IN (IF v # -1 /\ n > 1
             THEN <<[pos |-> pos, end |-> pos + n, offset |-> t.offset + 1]>>
             ELSE <<>>)
            \o bucketTasks(d, t, vs \ {v}, pos + n)

sorterChildren(d, t) == bucketTasks(d, t, Digits(d, t), t.pos)

\* what the sorter does when every recursive call is made on the spot
RECURSIVE serialSort(_, _)
RECURSIVE serialSort_children(_, _)
serialSort_children(d, kids) ==
    IF kids = <<>> THEN d
    ELSE serialSort_children(serialSort(d, Head(kids)), Tail(kids))

serialSort(d, t) == serialSort_children(sorterPass(d, t), sorterChildren(d, t))

\* ---- parallel.go

Caller == 0
\* the goroutines running doSortWork
Workers == DOMAIN wpc
Threads == DOMAIN stack

\* a faulty count of goroutines: the length of the data is not looked at
goroutines_noMinParallel(l) ==
    IF MaxProcs > 0 /\ MaxProcs < gomaxprocs THEN MaxProcs ELSE gomaxprocs

\* max := runtime.GOMAXPROCS(0); if MaxProcs > 0 && MaxProcs < max { max = MaxProcs }
\* if l < MinParallel { max = 1 }
goroutines(l) ==
    LET m == IF MaxProcs > 0 /\ MaxProcs < gomaxprocs THEN MaxProcs ELSE gomaxprocs
    IN IF l < MinParallel THEN 1 ELSE m

\* a faulty capacity: the product is rounded up
chanCap_ceiling(m) == (m * BufferRatio + 9) \div 10

\* int(float32(max)*BufferRatio)
chanCap(m) == (m * BufferRatio) \div 10

\* a faulty size test: no task is too small to be offloaded
tooSmall_never(t) == FALSE

\* if t.end-t.pos < MinOffload
tooSmall(t) == t.end - t.pos < MinOffload

\* a faulty default case: the task is run with the serial recurse function
inlineRecurse_sync == "syncSort"

\* the recurse function the default case of the select hands to sorter
inlineRecurse == "asyncSort"

\* a send in a select with a default case goes through when a receiver is
\* waiting or the buffer has room
canSend == \/ \E w \in Workers : wpc[w] = "parked"
           \/ Len(sorts.buf) < sorts.cap

\* a faulty select without a default case: the send waits for room
selectCases_blocking(ok) == IF ok THEN {"send"} ELSE {}

\* a faulty select: a task that is sent is also run on the spot
selectCases_both(ok) == IF ok THEN {"send", "default"} ELSE {"default"}

\* select { case sorts <- t: default: ... }: the cases that run
selectCases(ok) == IF ok THEN {"send"} ELSE {"default"}

\* a faulty wg.Add: the task is not counted
wgAdd_skip(n) == n

\* wg.Add(1)
wgAdd(n) == n + 1

\* a faulty wg.Done: the counter goes down by two
wgDone_twice(n) == n - 2

\* wg.Done()
wgDone(n) == n - 1

\* a faulty wg.Wait: it returns at once
waitReturns_noWait == TRUE

\* wg.Wait() returns
waitReturns == wg = 0

\* a call sorter(data, t, rec); counted: wg.Done() follows the call
Frame(t, rec, counted) ==
    [t |-> t, rec |-> rec, counted |-> counted, pc |-> "sort", kids |-> <<>>, body |-> FALSE]

\* the body of parallelSort, which passes initialTask to syncSort or asyncSort
Body(t, rec) ==
    [t |-> t, rec |-> rec, counted |-> FALSE, pc |-> "emit", kids |-> <<t>>, body |-> TRUE]

Top(th) == stack[th][Len(stack[th])]
Running(th) == th \in DOMAIN stack /\ stack[th] # <<>>

SetTop(stk, f) == [stk EXCEPT ![Len(stk)] = f]
Pop(stk) == SubSeq(stk, 1, Len(stk) - 1)

initialTask == [pos |-> 0, end |-> DataLen(data), offset |-> 0]

knobs == <<MaxProcs, MinParallel, MinOffload, BufferRatio, gomaxprocs>>

\* what no step of parallelSort changes
fixed == <<knobs, alg, lessKind, qSortCutoff, input, range, initShift, pending, spc, panicMsg,
           adversary, rounds, idxVars, keyVars>>

\* parallelSort up to its first call of syncSort or asyncSort: lines 31-53
\* and the go statements of lines 74-76
Enter ==
    /\ cpc = "start"
    /\ max' = goroutines(DataLen(data))
    /\ IF max' = 1
       THEN /\ stack' = [th \in {Caller} |-> <<Body(initialTask, "syncSort")>>]
            /\ wpc' = <<>>
            /\ UNCHANGED sorts
       ELSE /\ stack' = [th \in 0..max' |->
                            IF th = Caller THEN <<Body(initialTask, "asyncSort")>> ELSE <<>>]
            /\ wpc' = [w \in 1..max' |-> "ready"]
            /\ sorts' = [state |-> "open", cap |-> chanCap(max'), buf |-> <<>>]
    /\ cpc' = "call"
    /\ UNCHANGED <<fixed, wg, data>>

\* the sorter's pass over the range of its task
SorterPass(th) ==
    /\ Running(th) /\ Top(th).pc = "sort"
    /\ data' = sorterPass(data, Top(th).t)
    /\ stack' = [stack EXCEPT ![th] =
                    SetTop(@, [Top(th) EXCEPT !.pc = "emit",
                                              !.kids = sorterChildren(data, Top(th).t)])]
    /\ UNCHANGED <<fixed, max, sorts, wg, wpc, cpc>>

\* syncSort(t): sorter(data, t, syncSort)
SyncSort(th) ==
    /\ Running(th) /\ Top(th).pc = "emit" /\ Top(th).kids # <<>>
    /\ Top(th).rec = "syncSort"
    /\ stack' = [stack EXCEPT ![th] =
                    Append(SetTop(@, [Top(th) EXCEPT !.kids = Tail(@)]),
                           Frame(Head(Top(th).kids), "syncSort", FALSE))]
    /\ UNCHANGED <<fixed, max, sorts, wg, wpc, cpc, data>>

\* asyncSort(t) on a task below MinOffload: sorter(data, t, syncSort); return
AsyncSmall(th) ==
    /\ Running(th) /\ Top(th).pc = "emit" /\ Top(th).kids # <<>>
    /\ Top(th).rec = "asyncSort"
    /\ tooSmall(Head(Top(th).kids))
    /\ stack' = [stack EXCEPT ![th] =
                    Append(SetTop(@, [Top(th) EXCEPT !.kids = Tail(@)]),
                           Frame(Head(Top(th).kids), "syncSort", FALSE))]
    /\ UNCHANGED <<fixed, max, sorts, wg, wpc, cpc, data>>

\* asyncSort(t) otherwise: wg.Add(1)
AsyncAdd(th) ==
    /\ Running(th) /\ Top(th).pc = "emit" /\ Top(th).kids # <<>>
    /\ Top(th).rec = "asyncSort"
    /\ ~tooSmall(Head(Top(th).kids))
    /\ wg' = wgAdd(wg)
    /\ stack' = [stack EXCEPT ![th] = SetTop(@, [Top(th) EXCEPT !.pc = "select"])]
    /\ UNCHANGED <<fixed, max, sorts, wpc, cpc, data>>

\* the select of asyncSort.  case sorts <- t: the task goes to a worker
\* waiting in its receive, or else into the buffer.  default: the task is
\* run on the spot, sorter(data, t, asyncSort), with wg.Done() to follow.
AsyncSelect(th) ==
    /\ Running(th) /\ Top(th).pc = "select"
    /\ LET t == Head(Top(th).kids)
           cases == selectCases(canSend)
           back == SetTop(stack[th], [Top(th) EXCEPT !.pc = "emit", !.kids = Tail(@)])
           mine == IF "default" \in cases
                   THEN Append(back, Frame(t, inlineRecurse, TRUE))
                   ELSE back
       IN /\ cases # {}
          /\ IF "send" \in cases
             THEN IF \E w \in Workers : wpc[w] = "parked"
                  THEN \E w \in Workers :
                          /\ wpc[w] = "parked"
                          /\ wpc' = [wpc EXCEPT ![w] = "running"]
                          /\ stack' = [stack EXCEPT ![th] = mine,
                                                    ![w] = <<Frame(t, "asyncSort", TRUE)>>]
                          /\ UNCHANGED sorts
                  ELSE /\ sorts' = [sorts EXCEPT !.buf = Append(@, t)]
                       /\ stack' = [stack EXCEPT ![th] = mine]
                       /\ UNCHANGED wpc
             ELSE /\ stack' = [stack EXCEPT ![th] = mine]
                  /\ UNCHANGED <<sorts, wpc>>
    /\ UNCHANGED <<fixed, max, wg, cpc, data>>

\* sorter returns from a call that wg.Done() follows: line 65 on the thread
\* that ran the task on the spot, line 71 in a worker
TaskDone(th) ==
    /\ Running(th) /\ Top(th).pc = "emit" /\ Top(th).kids = <<>>
    /\ ~Top(th).body /\ Top(th).counted
    /\ wg' = wgDone(wg)
    /\ stack' = [stack EXCEPT ![th] = Pop(@)]
    /\ wpc' = IF th \in Workers /\ Len(stack[th]) = 1
              THEN [wpc EXCEPT ![th] = "ready"] ELSE wpc
    /\ UNCHANGED <<fixed, max, sorts, cpc, data>>

\* sorter returns from a call made by syncSort or by line 57
SyncReturn(th) ==
    /\ Running(th) /\ Top(th).pc = "emit" /\ Top(th).kids = <<>>
    /\ ~Top(th).body /\ ~Top(th).counted
    /\ stack' = [stack EXCEPT ![th] = Pop(@)]
    /\ UNCHANGED <<fixed, max, sorts, wg, wpc, cpc, data>>

\* for task := range sorts: a task is in the buffer
Receive(w) ==
    /\ w \in Workers /\ wpc[w] = "ready"
    /\ sorts.buf # <<>>
    /\ sorts' = [sorts EXCEPT !.buf = Tail(@)]
    /\ stack' = [stack EXCEPT ![w] = <<Frame(Head(sorts.buf), "asyncSort", TRUE)>>]
    /\ wpc' = [wpc EXCEPT ![w] = "running"]
    /\ UNCHANGED <<fixed, max, wg, cpc, data>>

\* a faulty range loop: it does not end when the channel is closed
rangeEnds_never == FALSE

\* for task := range sorts ends: the channel is closed and nothing is in it
rangeEnds == sorts.buf = <<>> /\ sorts.state = "closed"

\* for task := range sorts: nothing to receive, the goroutine waits
Park(w) ==
    /\ w \in Workers /\ wpc[w] = "ready"
    /\ sorts.buf = <<>> /\ sorts.state = "open"
    /\ wpc' = [wpc EXCEPT ![w] = "parked"]
    /\ UNCHANGED <<fixed, max, sorts, wg, stack, cpc, data>>

\* for task := range sorts: the channel is closed and empty, doSortWork returns
WorkerExit(w) ==
    /\ w \in Workers /\ wpc[w] \in {"ready", "parked"}
    /\ rangeEnds
    /\ wpc' = [wpc EXCEPT ![w] = "exited"]
    /\ UNCHANGED <<fixed, max, sorts, wg, stack, cpc, data>>

\* syncSort(initialTask) has returned (line 48: return), or
\* asyncSort(initialTask) has (line 80 is next)
BodyReturn ==
    /\ cpc = "call"
    /\ Top(Caller).body /\ Top(Caller).pc = "emit" /\ Top(Caller).kids = <<>>
    /\ stack' = [stack EXCEPT ![Caller] = <<>>]
    /\ cpc' = IF max = 1 THEN "returned" ELSE "wait"
    /\ UNCHANGED <<fixed, max, sorts, wg, wpc, data>>

\* wg.Wait()
Wait ==
    /\ cpc = "wait"
    /\ waitReturns
    /\ cpc' = "close"
    /\ UNCHANGED <<fixed, max, sorts, wg, stack, wpc, data>>

\* close(sorts), and parallelSort returns
Close ==
    /\ cpc = "close"
    /\ sorts' = [sorts EXCEPT !.state = "closed"]
    /\ cpc' = "returned"
    /\ UNCHANGED <<fixed, max, wg, stack, wpc, data>>

CallerStep == Enter \/ BodyReturn \/ Wait \/ Close

ThreadStep(th) ==
    \/ SorterPass(th) \/ SyncSort(th) \/ AsyncSmall(th) \/ AsyncAdd(th)
    \/ AsyncSelect(th) \/ TaskDone(th) \/ SyncReturn(th)

WorkerStep(w) == Receive(w) \/ Park(w) \/ WorkerExit(w)

\* the keys of the arrays parallelSort is run on
ParKeys == {<<1, 1>>, <<1, 2>>, <<2, 1>>}

\* the sort is not in use
SortIdle ==
    /\ alg = "parallelSort" /\ lessKind = "valid" /\ qSortCutoff = 128
    /\ range = <<0, DataLen(input)>>
    /\ initShift = 0
    /\ pending = <<>> /\ spc = "idle" /\ panicMsg = "none"
    /\ adversary = NoKeys(input) /\ rounds = <<>>
    /\ IdxIdle
    /\ KeyIdle

\* The arrays parallelSort is run on.  The tasks the sorter emits depend on
\* how many items have each key, not on where the items are, so one array is
\* taken for each choice of ParLen items: the one in descending order, in
\* which every bucketing pass has items to move.
ParArrays ==
    {d \in Arrays(ParKeys, {ParLen}) : \A i \in 1..(ParLen - 1) : ~KeyLess(d[i - 1], d[i])}

ParInit ==
    /\ input \in ParArrays
    /\ data = input
    /\ SortIdle
    /\ gomaxprocs \in {1, MaxWorkers}
    /\ MaxProcs \in 0..(MaxWorkers - 1)
    /\ MinParallel \in {ParLen, ParLen + 1}
    /\ MinOffload \in {2, 3}
    /\ BufferRatio \in {0, 7, 10}
    /\ max = 0
    /\ sorts = [state |-> "none", cap |-> 0, buf |-> <<>>]
    /\ wg = 0
    /\ stack = <<>>
    /\ wpc = <<>>
    /\ cpc = "start"

ParNext ==
    \/ Enter \/ BodyReturn \/ Wait \/ Close
    \/ \E th \in Threads : SorterPass(th)
    \/ \E th \in Threads : SyncSort(th)
    \/ \E th \in Threads : AsyncSmall(th)
    \/ \E th \in Threads : AsyncAdd(th)
    \/ \E th \in Threads : AsyncSelect(th)
    \/ \E th \in Threads : TaskDone(th)
    \/ \E th \in Threads : SyncReturn(th)
    \/ \E w \in Workers : Receive(w)
    \/ \E w \in Workers : Park(w)
    \/ \E w \in Workers : WorkerExit(w)

-----------------------------------------------------------------------------
(* Package index: an Index over sorted data, Summarize and the Find calls. *)
(* What a call that can panic returns is <<v>>, or <<>> when it panics;    *)
(* Summary is <<s>>, or <<>> when it is nil.                               *)

levelBits == 6
pageSize == Pow2(levelBits)

\* s[lo:hi] of a slice whose capacity is not below hi
slice(s, lo, hi) == [i \in 0..(hi - lo - 1) |-> s[lo + i]]

\* append(s, t...)
append(s, t) ==
    [i \in 0..(DataLen(s) + DataLen(t) - 1) |-> IF i < DataLen(s) THEN s[i] ELSE t[i - DataLen(s)]]

\* one level of the summary:  for i := 0; i < len(summarizing); i += pageSize
Summarize_level(summarizing) ==
    [i \in 0..((DataLen(summarizing) + pageSize - 1) \div pageSize - 1) |-> summarizing[i * pageSize]]

\* for len(summarizing) > pageSize { ... summarizing = summary[start:] }
RECURSIVE Summarize_loop(_, _)
Summarize_loop(summary, summarizing) ==
    IF DataLen(summarizing) > pageSize
    THEN Summarize_loop(append(summary, Summarize_level(summarizing)), Summarize_level(summarizing))
    ELSE summary

\* sort.Search(n, f), from i = 0 and j = n: f is given by what each call
\* f(h) returns; only the calls the search makes count
RECURSIVE Search(_, _, _)
Search(f, i, j) ==
    IF i < j
    THEN LET h == i + GoDiv(j - i, 2) IN
         IF f[h] = <<>> THEN <<>>
         ELSE IF ~f[h][1] THEN Search(f, h + 1, j)
         ELSE Search(f, i, h)
    ELSE <<i>>

\* for i < len(page) && page[i] < key { i++ }
RECURSIVE scanPage(_, _, _)
scanPage(page, key, i) ==
    IF i < DataLen(page) /\ KeyLess(page[i], key) THEN scanPage(page, key, i + 1) ELSE i

\* for l > 0 { levels++; l >>= levelBits }
RECURSIVE countLevels(_)
countLevels(l) == IF l > 0 THEN 1 + countLevels(l \div pageSize) ELSE 0

\* The loop of findUint64Summary and the scan of level 0 after it.  A slice
\* expression whose low bound is negative or above its high bound panics.
RECURSIVE findUint64Summary_loop(_, _, _, _, _, _)
findUint64Summary_page(keys, summary, key, levelNum, levelEnd, offset, levelLen) ==
    IF levelEnd - levelLen < 0 \/ offset > min(offset + pageSize, levelLen) THEN <<>>
    ELSE findUint64Summary_loop(
             keys, summary, key, levelNum - 1, levelEnd - levelLen,
             pageSize * (offset + LET i == scanPage(slice(summary, levelEnd - levelLen + offset,
                                                          levelEnd - levelLen
                                                              + min(offset + pageSize, levelLen)),
                                                    key, 0)
                                  IN IF i > 0 THEN i - 1 ELSE i))

findUint64Summary_loop(keys, summary, key, levelNum, levelEnd, offset) ==
    IF levelNum > 0
    THEN findUint64Summary_page(
             keys, summary, key, levelNum, levelEnd, offset,
             IF DataLen(keys) > (DataLen(keys) \div Pow2(levelBits * levelNum)) * Pow2(levelBits * levelNum)
             THEN DataLen(keys) \div Pow2(levelBits * levelNum) + 1
             ELSE DataLen(keys) \div Pow2(levelBits * levelNum))
    ELSE IF offset > min(offset + pageSize, DataLen(keys)) THEN <<>>
         ELSE <<offset + scanPage(slice(keys, offset, min(offset + pageSize, DataLen(keys))), key, 0)>>

findUint64Summary(ix, key) ==
    findUint64Summary_loop(ix.Keys, ix.Summary[1], key, countLevels(DataLen(ix.Keys)) - 1,
                           DataLen(ix.Summary[1]), 0)

FindUint64(ix, key) ==
    IF ix.Summary # <<>> THEN findUint64Summary(ix, key)
    ELSE Search([i \in DOMAIN ix.Keys |-> <<~KeyLess(ix.Keys[i], key)>>], 0, DataLen(ix.Keys))

\* key + 1 on 64 bits, from the lowest byte j = 8 up
RECURSIVE Inc64(_, _)
Inc64(k, j) ==
    IF j = 0 THEN k
    ELSE IF k[j] = mask THEN Inc64([k EXCEPT ![j] = 0], j - 1)
    ELSE [k EXCEPT ![j] = @ + 1]

\* FindUint64Range after its first search, which returned a
FindUint64Range_end(ix, key, a) ==
    IF a = <<>> THEN [a |-> <<>>, b |-> <<>>]
    ELSE IF a[1] = DataLen(ix.Keys) \/ ix.Keys[a[1]] # key THEN [a |-> a, b |-> a]
    ELSE [a |-> a,
          b |-> IF key = [j \in 1..8 |-> mask] THEN <<DataLen(ix.Keys)>>
                ELSE FindUint64(ix, Inc64(key, 8))]

FindUint64Range(ix, key) == FindUint64Range_end(ix, key, FindUint64(ix, key))

\* strings.Compare(a, b) and bytes.Compare(a, b)
Compare(a, b) == IF KeyLess(a, b) THEN -1 ELSE IF KeyLess(b, a) THEN 1 ELSE 0

\* CompareStringToBytes(a, b), from i = 0:  for i := range b.  The test
\* i > len(a) lets i = len(a) by, where a[i] is out of range.
RECURSIVE CompareStringToBytes(_, _, _)
CompareStringToBytes(a, b, i) ==
    IF i < Len(b)
    THEN IF i > Len(a) THEN <<-1>>
         ELSE IF i >= Len(a) THEN <<>>
         ELSE IF b[i + 1] > a[i + 1] THEN <<-1>>
         ELSE IF a[i + 1] > b[i + 1] THEN <<1>>
         ELSE CompareStringToBytes(a, b, i + 1)
    ELSE IF Len(a) > Len(b) THEN <<1>> ELSE <<0>>

\* -CompareStringToBytes(b, a)
CompareBytesToString(a, b) ==
    IF CompareStringToBytes(b, a, 0) = <<>> THEN <<>> ELSE <<0 - CompareStringToBytes(b, a, 0)[1]>>

\* the comparison in the func(i int) bool that FindString and FindBytes give
\* to sort.Search, by the call and the type of Data
FindString_compare(op, kind, key, item) ==
    CASE op = "FindString" /\ kind = "string" -> <<Compare(key, item)>>
      [] op = "FindString" /\ kind = "bytes"  -> CompareStringToBytes(key, item, 0)
      [] op = "FindBytes" /\ kind = "string"  -> CompareBytesToString(key, item)
      [] op = "FindBytes" /\ kind = "bytes"   -> <<Compare(key, item)>>

\* a + sort.Search(b-a, func(i int) bool { return compare(key, data.Key(a+i)) >= 0 }),
\* over the range r of FindUint64Range
FindString_search(ix, key, r, op) ==
    IF r.a = <<>> \/ r.b = <<>> THEN <<>>
    ELSE LET n == Search([i \in 0..(r.b[1] - r.a[1] - 1) |->
                            LET c == FindString_compare(op, ix.kind, key, ix.Data[r.a[1] + i])
                            IN IF c = <<>> THEN <<>> ELSE <<c[1] >= 0>>],
                         0, r.b[1] - r.a[1])
         IN IF n = <<>> THEN <<>> ELSE <<r.a[1] + n[1]>>

FindString(ix, key) == FindString_search(ix, key, FindUint64Range(ix, StringKey(key)), "FindString")

FindBytes(ix, key) == FindString_search(ix, key, FindUint64Range(ix, StringKey(key)), "FindBytes")

\* the uint64 v, for v below 2^16
U64(v) == <<0, 0, 0, 0, 0, 0, v \div 256, v % 256>>

\* Sorted keys: the odd numbers, each run times over; the lengths are those
\* around one page and around a page of pages.
KeysOf(n, run) == [i \in 0..(n - 1) |-> U64(2 * (i \div run) + 1)]
IndexLens == {0, 1, pageSize - 1, pageSize, pageSize + 1, 2 * pageSize + 2}
LongIndexLens == {pageSize * pageSize, pageSize * pageSize + 1}
MaxRun == 3

\* the keys looked for: 0, and the keys (and the number after each) of the
\* items at both ends of every run of 8 positions of a short array; of a long
\* array, those around its first, middle and last items and its page boundaries
Probes(keys) ==
    LET n == DataLen(keys)
        at == IF n <= 3 * pageSize THEN {i \in DOMAIN keys : i % 8 \in {0, 7} \/ i = n - 1}
              ELSE {0, pageSize - 1, pageSize, n \div 2, n - pageSize, n - 1}
    IN {U64(0)} \cup {keys[i] : i \in at} \cup {Inc64(keys[i], 8) : i \in at}

\* sorted arrays of strings and []byte items, some with the same first 8 bytes
SortedData == {d \in Arrays(IndexItems, 0..IdxLen) :
                  \A i \in 1..(DataLen(d) - 1) : ~KeyLess(d[i], d[i - 1])}

\* SortWithIndex has returned: Keys[i] is the key of Data[i], both are sorted
Indexes ==
    {[Keys |-> KeysOf(n, run), Summary |-> <<>>, Data |-> KeysOf(n, run), kind |-> "uint64"] :
         n \in IndexLens, run \in {1, MaxRun}}
    \cup {[Keys |-> KeysOf(n, MaxRun), Summary |-> <<>>, Data |-> KeysOf(n, MaxRun),
           kind |-> "uint64"] : n \in LongIndexLens}
    \cup {[Keys |-> [i \in DOMAIN d |-> StringKey(d[i])], Summary |-> <<>>, Data |-> d,
           kind |-> k] : d \in SortedData, k \in {"string", "bytes"}}

\* no sort is in use
NoSort ==
    /\ alg = "none" /\ lessKind = "valid" /\ qSortCutoff = 128
    /\ input = <<>> /\ range = <<0, 0>> /\ initShift = 0 /\ data = <<>>
    /\ pending = <<>> /\ spc = "idle" /\ panicMsg = "none"
    /\ adversary = NoKeys(input) /\ rounds = <<>>

IndexInit ==
    /\ idx \in Indexes
    /\ find = [op |-> "none", key |-> <<>>, item |-> <<>>, summary |-> FALSE, result |-> <<>>]
    /\ NoSort
    /\ ParIdle
    /\ KeyIdle

\* idx.Summarize()
Summarize ==
    /\ idx.Summary = <<>>
    /\ idx' = [idx EXCEPT !.Summary = <<Summarize_loop(<<>>, idx.Keys)>>]
    /\ UNCHANGED <<find, sortVars, parVars, keyVars>>

\* idx.FindUint64(key)
FindUint64Call ==
    /\ \E key \in Probes(idx.Keys) :
          find' = [op |-> "FindUint64", key |-> key, item |-> <<>>,
                   summary |-> idx.Summary # <<>>,
                   result |-> FindUint64(idx, key)]
    /\ UNCHANGED <<idx, sortVars, parVars, keyVars>>

\* idx.FindString(key)
FindStringCall ==
    /\ idx.kind \in {"string", "bytes"}
    /\ \E key \in IndexItems :
          find' = [op |-> "FindString", key |-> key, item |-> <<>>,
                   summary |-> idx.Summary # <<>>,
                   result |-> FindString(idx, key)]
    /\ UNCHANGED <<idx, sortVars, parVars, keyVars>>

\* idx.FindBytes(key)
FindBytesCall ==
    /\ idx.kind \in {"string", "bytes"}
    /\ \E key \in IndexItems :
          find' = [op |-> "FindBytes", key |-> key, item |-> <<>>,
                   summary |-> idx.Summary # <<>>,
                   result |-> FindBytes(idx, key)]
    /\ UNCHANGED <<idx, sortVars, parVars, keyVars>>

\* CompareStringToBytes(a, b)
CompareStringToBytesCall ==
    /\ \E a, b \in IndexItems :
          find' = [op |-> "CompareStringToBytes", key |-> a, item |-> b, summary |-> FALSE,
                   result |-> CompareStringToBytes(a, b, 0)]
    /\ UNCHANGED <<idx, sortVars, parVars, keyVars>>

\* CompareBytesToString(a, b)
CompareBytesToStringCall ==
    /\ \E a, b \in IndexItems :
          find' = [op |-> "CompareBytesToString", key |-> a, item |-> b, summary |-> FALSE,
                   result |-> CompareBytesToString(a, b)]
    /\ UNCHANGED <<idx, sortVars, parVars, keyVars>>

IndexNext == Summarize \/ FindUint64Call \/ FindStringCall \/ FindBytesCall

\* the two comparisons called on their own, with no Index
CompareInit ==
    /\ IdxIdle
    /\ NoSort
    /\ ParIdle
    /\ KeyIdle

CompareNext == CompareStringToBytesCall \/ CompareBytesToStringCall

-----------------------------------------------------------------------------
(* The keys of the floats *)

\* A float64 is the tuple of the 8 bytes of math.Float64bits(f), a float32
\* that of the 4 bytes of math.Float32bits(f), most significant first.

\* 1 << 63
signBit64 == <<128, 0, 0, 0, 0, 0, 0, 0>>

\* ^x on 64 bits
Not64(x) == [i \in 1..8 |-> 255 - x[i]]

RECURSIVE OrBits(_, _, _)
OrBits(x, y, n) ==
    IF n = 0 THEN 0
    ELSE (IF x % 2 = 1 \/ y % 2 = 1 THEN 1 ELSE 0) + 2 * OrBits(x \div 2, y \div 2, n - 1)

\* x | y
Or64(x, y) == [i \in 1..8 |-> OrBits(x[i], y[i], 8)]

\* x - 1 on 64 bits: 0 - 1 is 1<<64 - 1
Dec64(x) ==
    IF x = Zero64 THEN [i \in 1..8 |-> 255]
    ELSE LET low == CHOOSE i \in 1..8 : x[i] # 0 /\ \A j \in (i + 1)..8 : x[j] = 0
         IN [i \in 1..8 |-> IF i < low THEN x[i] ELSE IF i = low THEN x[i] - 1 ELSE 255]

\* b ^= ^(b>>63 - 1) | (1 << 63)
\* (in Go >> binds more tightly than -: the operand of ^ is (b>>63) - 1)
flipped(b) == Xor64(b, Or64(Not64(Dec64(ShiftRight64(b, 63))), signBit64))

\* b := math.Float64bits(f)
Float64Key(f) == flipped(f)

\* b := uint64(math.Float32bits(f)) << 32
Float32Key(f) == flipped(f \o <<0, 0, 0, 0>>)

\* The float64s compared: 0, the least and the greatest of the subnormal, of
\* the normal and of the infinite numbers and 1, of both signs, and NaNs of
\* both signs, with the least, a middle and the greatest mantissa
Magnitudes64 == {<<0, 0, 0, 0, 0, 0, 0, 0>>, <<0, 0, 0, 0, 0, 0, 0, 1>>,
                 <<0, 15, 255, 255, 255, 255, 255, 255>>, <<0, 16, 0, 0, 0, 0, 0, 0>>,
                 <<63, 240, 0, 0, 0, 0, 0, 0>>, <<127, 239, 255, 255, 255, 255, 255, 255>>,
                 <<127, 240, 0, 0, 0, 0, 0, 0>>,
                 <<127, 240, 0, 0, 0, 0, 0, 1>>, <<127, 248, 0, 0, 0, 0, 0, 0>>,
                 <<127, 255, 255, 255, 255, 255, 255, 255>>}
\* and the float32s
Magnitudes32 == {<<0, 0, 0, 0>>, <<0, 0, 0, 1>>, <<0, 127, 255, 255>>, <<0, 128, 0, 0>>,
                 <<63, 128, 0, 0>>, <<127, 127, 255, 255>>, <<127, 128, 0, 0>>,
                 <<127, 128, 0, 1>>, <<127, 192, 0, 0>>, <<127, 255, 255, 255>>}

\* -f: the sign bit set
Negated(f) == [f EXCEPT ![1] = @ + 128]

Floats(bits) ==
    LET m == IF bits = 32 THEN Magnitudes32 ELSE Magnitudes64
    IN m \cup {Negated(f) : f \in m}

\* two floats to compare
KeyInit ==
    /\ \E bits \in {32, 64} : \E f, g \in Floats(bits) :
          less = [bits |-> bits, f |-> f, g |-> g, keys |-> <<>>, result |-> <<>>]
    /\ NoSort
    /\ ParIdle
    /\ IdxIdle

\* the call made with the keys of its two floats
Compared(kf, kg) == [less EXCEPT !.keys = <<kf, kg>>, !.result = <<KeyLess(kf, kg)>>]

\* Float32Less(f, g): return Float32Key(f) < Float32Key(g)
Float32Less ==
    /\ less.bits = 32
    /\ less.keys = <<>>
    /\ less' = Compared(Float32Key(less.f), Float32Key(less.g))
    /\ UNCHANGED <<sortVars, parVars, idxVars>>

\* Float64Less(f, g): return Float64Key(f) < Float64Key(g)
Float64Less ==
    /\ less.bits = 64
    /\ less.keys = <<>>
    /\ less' = Compared(Float64Key(less.f), Float64Key(less.g))
    /\ UNCHANGED <<sortVars, parVars, idxVars>>

KeyNext == Float32Less \/ Float64Less

-----------------------------------------------------------------------------
(* The specifications *)

vars == <<sortVars, parVars, idxVars, keyVars>>

\* the sorts, one thread
Init == SortInit

Next == SortNext

Spec == Init /\ [][Next]_vars

\* doPivot by itself
SpecPivot == PivotInit /\ [][Next]_vars

\* parallelSort
SpecPar == ParInit /\ [][ParNext]_vars

\* parallelSort under the Go scheduler, which does not leave every runnable
\* goroutine waiting forever: while some goroutine can take a step, one does
Fairness == WF_vars(ParNext)

SpecParFair == SpecPar /\ Fairness

\* package index
SpecIndex == IndexInit /\ [][IndexNext]_vars

\* the comparisons of package index
SpecCompare == CompareInit /\ [][CompareNext]_vars

\* the keys of the floats
SpecKeys == KeyInit /\ [][KeyNext]_vars

-----------------------------------------------------------------------------
(* Properties of the sorts *)

\* !Less(i, i-1) for all i in [a+1, b)
SortedIn(d, a, b) == \A i \in (a + 1)..(b - 1) : ~Less(d, i, i - 1)

\* the item of the caller's data that x holds
ItemOf(x) == IF lessKind = "index" THEN x.item ELSE x

\* d and e hold the same items, each as many times
SameItems(d, e) ==
    /\ DOMAIN d = DOMAIN e
    /\ \A i \in DOMAIN d :
          Cardinality({j \in DOMAIN d : ItemOf(d[j]) = ItemOf(d[i])})
              = Cardinality({j \in DOMAIN e : ItemOf(e[j]) = ItemOf(d[i])})

\* Less and Key disagree on some pair of positions of d
Inconsistent(d) == \E i, j \in DOMAIN d : Less(d, i, j) # KeyLess(Key(d, i), Key(d, j))

\* C1: with a Less that agrees with Key, for every input and every cutoff,
\* the sorting pass leaves !Less(i, i-1) for all i in [1, n), and the entry
\* point returns without a panic.
C1_SortedOnReturn ==
    (lessKind = "valid" /\ spc # "idle" /\ pending = <<>>) =>
        /\ SortedIn(data, range[1], range[2])
        /\ spc # "panicked"
        /\ panicMsg = "none"

C1_Witness ==
    /\ lessKind = "valid" /\ alg = "ByNumber" /\ qSortCutoff = 1
    /\ spc = "returned" /\ data # input /\ DataLen(data) = LongLen

\* C4: in every state of a sort, also after a panic, the array holds the
\* items of the input, each as many times, and every Swap the sort makes
\* has both indexes inside the range being sorted.
C4_Permutation ==
    /\ SameItems(data, input)
    /\ \A k \in 1..Len(pending) :
          /\ pending[k][1] \in range[1]..(range[2] - 1)
          /\ pending[k][2] \in range[1]..(range[2] - 1)

C4_Witness ==
    /\ spc = "panicked" /\ data # input /\ alg = "ByString"

\* C5 as stated: a handle whose Less disagrees with Key on some pair never
\* returns normally.
C5_AlwaysDetected ==
    (alg \in EntryPoints /\ spc \in {"returned", "panicked"} /\ Inconsistent(input)) =>
        spc = "panicked"

\* C5: the entry point panics exactly when the array left by the
\* sorting pass has some i in [1, n) with Less(i, i-1); a disagreement that
\* leaves no such neighbours goes unnoticed.
C5_DetectedByScan ==
    (alg \in EntryPoints /\ spc \in {"returned", "panicked"}) =>
        /\ (spc = "panicked") = (\E i \in 1..(DataLen(data) - 1) : Less(data, i, i - 1))
        /\ (spc = "panicked") = (panicMsg # "none")

C5_Witness ==
    /\ alg = "ByNumber" /\ lessKind = "miskeyed" /\ qSortCutoff = 1
    /\ Inconsistent(input) /\ spc = "panicked"

-----------------------------------------------------------------------------
(* Properties of parallelSort *)

\* parallelSort ran with goroutines and a channel
Parallel == sorts.state # "none"

Overlap(s, t) == s.pos < t.end /\ t.pos < s.end
Within(s, t) == t.pos <= s.pos /\ s.end <= t.end
Buffered == {sorts.buf[k] : k \in 1..Len(sorts.buf)}

\* C2: when parallelSort has passed wg.Wait() (and so when it returns), no
\* task is queued, no thread is inside a sorter call and the count of
\* outstanding tasks is zero: the return comes only after all sorting work.
C2_ReturnAfterAllWork ==
    (cpc \in {"close", "returned"}) =>
        /\ sorts.buf = <<>>
        /\ \A th \in Threads : stack[th] = <<>>
        /\ wg = 0

C2_Witness ==
    /\ cpc = "returned" /\ Parallel /\ data # input
    /\ \E w \in Workers : wpc[w] = "exited"

\* C3: with every runnable goroutine eventually running, parallelSort
\* returns, whatever the channel's capacity (zero included).
C3_Terminates == <>(cpc = "returned")

C3_Witness == cpc = "returned" /\ Parallel /\ sorts.cap = 0 /\ data # input

\* the calls of the sorter that are on thread th's stack, innermost last
Calls(th) == {k \in 1..Len(stack[th]) : ~stack[th][k].body}

\* the calls, on every thread, that wg.Done() follows
Counted == {<<th, k>> \in Threads \X (1..(ParLen + 2)) :
                k \in Calls(th) /\ stack[th][k].counted}

\* the calls of asyncSort that are between wg.Add(1) and the select
Selecting == {th \in Threads : Running(th) /\ Top(th).pc = "select"}

\* C6: a thread inside a sorter call can always take its next step, the
\* select of asyncSort included, whatever the channel holds; a goroutine of
\* doSortWork that can take no step is waiting in its receive (or has
\* returned); and a task run by the default case of the select is run with
\* asyncSort as its recurse function.
C6_SubmissionNeverBlocks ==
    /\ \A th \in Threads : Running(th) => ENABLED (ThreadStep(th) \/ BodyReturn)
    /\ \A w \in Workers :
          (~Running(w) /\ ~ENABLED WorkerStep(w)) => wpc[w] \in {"parked", "exited"}
    /\ \A th \in Threads : \A k \in Calls(th) :
          (k > 1 /\ stack[th][k].counted) => stack[th][k].rec = "asyncSort"

C6_Witness ==
    /\ sorts.cap > 0 /\ Len(sorts.buf) = sorts.cap
    /\ \E w \in Workers :
          /\ Len(stack[w]) > 1 /\ Top(w).counted /\ Top(w).pc = "emit"
          /\ Top(w).kids # <<>>

C8_SameAsSerial == (cpc = "returned") => data = serialSort(input, [pos |-> 0, end |-> DataLen(input), offset |-> 0])

C8_Witness ==
    /\ cpc = "returned" /\ max = MaxWorkers /\ sorts.cap = MaxWorkers
    /\ data # input

\* C9: every task on the channel has at least MinOffload items; a call that
\* wg.Done() follows is of a task of at least MinOffload items; below a call
\* made with syncSort as recurse function every call is made with syncSort
\* and none is followed by wg.Done(); and the wait group counts exactly the
\* queued tasks, the tasks between wg.Add(1) and the select, and the calls
\* that wg.Done() follows.
C9_SmallTasksInline ==
    /\ \A q \in Buffered : q.end - q.pos >= MinOffload
    /\ \A th \in Threads : \A k \in Calls(th) :
          /\ stack[th][k].counted => stack[th][k].t.end - stack[th][k].t.pos >= MinOffload
          /\ (stack[th][k].t.end - stack[th][k].t.pos < MinOffload) =>
                \A j \in k..Len(stack[th]) :
                    stack[th][j].rec = "syncSort" /\ ~stack[th][j].counted
    /\ wg = Len(sorts.buf) + Cardinality(Selecting) + Cardinality(Counted)

C9_Witness ==
    /\ Parallel /\ wg > 0
    /\ \E th \in Threads :
          /\ Len(stack[th]) > 1 /\ Top(th).rec = "syncSort" /\ Top(th).pc = "emit"
          /\ Top(th).t.end - Top(th).t.pos < MinOffload
          /\ stack[th][Len(stack[th]) - 1].rec = "asyncSort"

\* C10: when the data is shorter than MinParallel or MaxProcs is 1,
\* parallelSort makes no channel and starts no goroutine; every call of the
\* sorter is on the caller's thread with syncSort as recurse function, and
\* parallelSort returns when syncSort(initialTask) does.
C10_SerialPath ==
    ((DataLen(data) < MinParallel \/ MaxProcs = 1) /\ cpc # "start") =>
        /\ sorts.state = "none" /\ Workers = {} /\ wg = 0
        /\ Threads = {Caller}
        /\ \A k \in 1..Len(stack[Caller]) :
              stack[Caller][k].rec = "syncSort" /\ ~stack[Caller][k].counted
        /\ cpc \in {"call", "returned"}
        /\ (cpc = "returned") = (stack[Caller] = <<>>)

C10_Witness ==
    /\ cpc = "returned" /\ DataLen(data) < MinParallel
    /\ gomaxprocs = MaxWorkers /\ MaxProcs = 0 /\ data # input

\* C11 as stated: the capacity of the channel is the product of the number of
\* goroutines and BufferRatio rounded up, and the channel never holds more.
C11_CapacityCeiling ==
    Parallel =>
        /\ 10 * sorts.cap >= max * BufferRatio
        /\ 10 * (sorts.cap - 1) < max * BufferRatio
        /\ Len(sorts.buf) <= sorts.cap

\* C11: the capacity of the channel is the product of the number of
\* goroutines and BufferRatio rounded down (the conversion to int drops the
\* fraction), and the channel never holds more tasks than that.
C11_CapacityTruncated ==
    Parallel =>
        /\ 10 * sorts.cap <= max * BufferRatio
        /\ 10 * (sorts.cap + 1) > max * BufferRatio
        /\ Len(sorts.buf) <= sorts.cap

C11_Witness ==
    /\ Parallel /\ (max * BufferRatio) % 10 # 0
    /\ sorts.cap > 0 /\ Len(sorts.buf) = sorts.cap
    /\ \E th \in Threads : Running(th) /\ Top(th).pc = "select"

\* C12: the channel is closed once, by a step taken when the wait group is at
\* zero and the channel is empty; it stays closed and empty; and once it is
\* closed every goroutine started by the call returns from doSortWork.
C12_TornDownOnce ==
    /\ [][(sorts'.state = "closed" /\ sorts.state # "closed") =>
             (sorts.state = "open" /\ cpc = "close" /\ wg = 0 /\ sorts.buf = <<>>)]_vars
    /\ [][sorts.state = "closed" => sorts' = sorts]_vars
    /\ (sorts.state = "closed") ~> (\A w \in DOMAIN wpc : wpc[w] = "exited")

C12_Witness ==
    /\ sorts.state = "closed" /\ Cardinality(DOMAIN wpc) = MaxWorkers
    /\ \A w \in DOMAIN wpc : wpc[w] = "exited"

\* a step that sends a task on the channel: the task goes into the buffer,
\* or to a goroutine that waits in its receive
Sends ==
    \/ Len(sorts'.buf) > Len(sorts.buf)
    \/ \E w \in DOMAIN wpc : wpc[w] = "parked" /\ wpc'[w] = "running"

\* C30: in no interleaving is a task sent on the channel once the channel is
\* closed, and the wait group's counter is never negative: every send is
\* made while the channel is open and the counter is positive, by a thread
\* that has done its wg.Add(1) and not yet the wg.Done() for it; the channel
\* is closed only when the counter is at zero; and once it is closed no
\* thread is left in a call of the sorter, so nothing is sent any more.
C30_NoSendAfterClose ==
    /\ [](wg >= 0)
    /\ [][Sends => /\ sorts.state = "open" /\ sorts'.state = "open"
                   /\ wg > 0 /\ wg' = wg
                   /\ \E th \in Threads : Running(th) /\ Top(th).pc = "select"]_vars
    /\ [][(sorts.state # "closed" /\ sorts'.state = "closed") => (wg = 0 /\ wg' = 0)]_vars
    /\ [](sorts.state = "closed" =>
             /\ wg = 0 /\ sorts.buf = <<>>
             /\ \A th \in Threads : ~Running(th))

\* tasks were sent both ways: one is in the buffer and one is run by a
\* goroutine of doSortWork, while the sender goes on and the counter counts
\* them all
C30_Witness ==
    /\ sorts.state = "open" /\ sorts.buf # <<>> /\ wg > Len(sorts.buf)
    /\ \E w \in DOMAIN wpc : wpc[w] = "running" /\ Running(w)
    /\ Running(Caller) /\ cpc = "call"

\* the positions i in [1, n) of d with Less(i, i-1)
Descents(d) == {i \in 1..(DataLen(d) - 1) : Less(d, i, i - 1)}

\* the first of them
FirstDescent(d) == CHOOSE i \in Descents(d) : \A j \in Descents(d) : i <= j

\* the message for Key(i) > Key(i-1) in entry point a
KeyMessageOf(a) == IF a = "ByNumber" THEN keyPanicMessage \o keyNumberHelp ELSE keyPanicMessage

\* C13: the scan of an entry point stops at the least i in [1, n) with
\* Less(i, i-1); it panics with the message about Key and Less if
\* Key(i) > Key(i-1), with the hint about the number keys in ByNumber and
\* only there, and with the general message otherwise; the entry point
\* returns when there is no such i.
C13_ScanOutcome ==
    (alg \in EntryPoints /\ spc \in {"returned", "panicked"}) =>
        IF Descents(data) = {}
        THEN spc = "returned" /\ panicMsg = "none"
        ELSE /\ spc = "panicked"
             /\ panicMsg = IF KeyLess(Key(data, FirstDescent(data) - 1), Key(data, FirstDescent(data)))
                           THEN KeyMessageOf(alg)
                           ELSE panicMessage

C13_Witness ==
    /\ alg = "ByString" /\ spc = "panicked" /\ panicMsg = keyPanicMessage
    /\ FirstDescent(data) > 1
    /\ \E i \in Descents(data) : i > FirstDescent(data) /\ ~KeyLess(Key(data, i - 1), Key(data, i))

\* C14 as stated: when the scan stops at an i whose keys are in order,
\* Key(i-1) <= Key(i), the panic has the general message, and the message
\* about Key and Less is kept for an i with Key(i) < Key(i-1).
C14_InOrderIsGeneral ==
    (alg \in EntryPoints /\ spc = "panicked") =>
        /\ ~KeyLess(Key(data, FirstDescent(data)), Key(data, FirstDescent(data) - 1))
              => panicMsg = panicMessage
        /\ panicMsg = KeyMessageOf(alg)
              => KeyLess(Key(data, FirstDescent(data)), Key(data, FirstDescent(data) - 1))

\* C14: when the scan stops at an i with Key(i-1) < Key(i), where Less(i, i-1)
\* contradicts the keys, the panic has the message about Key and Less; it
\* has the general message when Key(i) <= Key(i-1), where Less and the keys
\* agree or the keys are equal.
C14_AscendingIsKeyMessage ==
    (alg \in EntryPoints /\ spc = "panicked") =>
        /\ KeyLess(Key(data, FirstDescent(data) - 1), Key(data, FirstDescent(data)))
              => panicMsg = KeyMessageOf(alg)
        /\ ~KeyLess(Key(data, FirstDescent(data) - 1), Key(data, FirstDescent(data)))
              => panicMsg = panicMessage

C14_Witness ==
    /\ alg = "ByNumber" /\ lessKind = "unsortable" /\ spc = "panicked"
    /\ Key(data, FirstDescent(data) - 1) = Key(data, FirstDescent(data))
    /\ panicMsg = panicMessage

\* the least k with 2^k >= m
CeilLog2(m) == CHOOSE k \in 0..64 : Pow2(k) >= m /\ (k = 0 \/ Pow2(k - 1) < m)

\* the rounds of doPivot, up to round k and with it, on a range that holds
\* the range of round k: the rounds nested on the chain that ends there
Nested(k) ==
    Cardinality({m \in 1..k : /\ rounds[m][1] = "doPivot"
                              /\ rounds[m][2] <= rounds[k][2]
                              /\ rounds[k][3] <= rounds[m][3]})

\* at most 2*ceil(log2(n+1)) rounds of doPivot are nested on a chain of
\* ranges, and heapSort gets a range longer than 7 after that many
DepthBounded ==
    \A k \in 1..Len(rounds) :
        /\ Nested(k) <= 2 * CeilLog2(range[2] - range[1] + 1)
        /\ rounds[k][1] = "heapSort" =>
              /\ rounds[k][3] - rounds[k][2] > 7
              /\ Nested(k) = 2 * CeilLog2(range[2] - range[1] + 1)

C16_DepthCapped ==
    (alg \in {"ByString", "ByBytes"} /\ spc # "idle") =>
        /\ \A k \in 1..Len(rounds) :
              /\ rounds[k][1] = "radixSortString" => rounds[k][4] < maxRadixDepth
              /\ rounds[k][1] = "qSort" => rounds[k][4] <= maxRadixDepth
        /\ (lessKind = "valid" /\ spc \in {"returned", "panicked"}) =>
              /\ spc = "returned"
              /\ SortedIn(data, 0, DataLen(data))

C16_Witness ==
    /\ alg = "ByBytes" /\ lessKind = "valid" /\ qSortCutoff = 1 /\ spc = "returned"
    /\ data # input
    /\ \E k \in 1..Len(rounds) :
          /\ rounds[k] = <<"qSort", 0, DataLen(data), maxRadixDepth>>
          /\ DataLen(data) = DeepLen
    /\ \E i, j \in DOMAIN data : Len(data[i]) < Len(data[j]) /\ Len(data[i]) > maxRadixDepth

-----------------------------------------------------------------------------
(* Properties of package index *)

\* the index of the first of the sorted items d that is not below k, or
\* their number when every one is
FirstAtLeast(d, k) == Cardinality({i \in DOMAIN d : KeyLess(d[i], k)})

\* C17 as stated: once Summarize was called, FindUint64(k) returns, for every
\* length of the sorted Keys and every k, the index of the first key >= k, or
\* the length: what the binary search returns when there is no summary.
C17_FindBySummary ==
    (find.op = "FindUint64" /\ find.summary) =>
        /\ find.result = <<FirstAtLeast(idx.Keys, find.key)>>
        /\ find.result = FindUint64([idx EXCEPT !.Summary = <<>>], find.key)

\* C18 as stated: over sorted string or []byte data, FindString(key) and
\* FindBytes(key) return the index of the first item >= key, or the length.
C18_FindFirstAtLeast ==
    find.op \in {"FindString", "FindBytes"} =>
        /\ find.result = <<FirstAtLeast(idx.Data, find.key)>>

\* the levels findUint64Summary looks for in the Summary of n keys: their
\* number, the length of level k and where it starts when the levels are
\* stored in ascending k
LevelsOf(n) == countLevels(n) - 1
LevelLenOf(n, k) == (n + Pow2(levelBits * k) - 1) \div Pow2(levelBits * k)
RECURSIVE LevelStartOf(_, _)
LevelStartOf(n, k) == IF k > 1 THEN LevelStartOf(n, k - 1) + LevelLenOf(n, k - 1) ELSE 0

\* C28 as stated: for every number n of Keys, what Summarize stores is the
\* levels findUint64Summary expects, as many and as long as it derives from
\* n, in ascending k, level k holding Keys[i * 64^k] for every i below
\* ceil(n / 64^k); and no slice the search takes of Summary is out of bounds.
C28_LevelsAsExpected ==
    /\ idx.Summary # <<>> =>
          /\ DataLen(idx.Summary[1])
                = LevelStartOf(DataLen(idx.Keys), LevelsOf(DataLen(idx.Keys)) + 1)
          /\ \A k \in 1..LevelsOf(DataLen(idx.Keys)) :
                \A i \in 0..(LevelLenOf(DataLen(idx.Keys), k) - 1) :
                    idx.Summary[1][LevelStartOf(DataLen(idx.Keys), k) + i]
                        = idx.Keys[i * Pow2(levelBits * k)]
    /\ (find.op = "FindUint64" /\ find.summary) => find.result # <<>>

\* C21: CompareStringToBytes(a, b) returns, for every string a and every
\* []byte b, -1, 0 or 1 as a is below, equal to or above b in the order of
\* their bytes, and CompareBytesToString(b, a) returns the negation.
C21_ComparesEveryPair ==
    /\ find.op = "CompareStringToBytes" => find.result = <<Compare(find.key, find.item)>>
    /\ find.op = "CompareBytesToString" => find.result = <<0 - Compare(find.item, find.key)>>

\* C19: SortWithIndex over string or []byte items returns, and leaves the
\* Keys in ascending order, the items with equal Keys in the order of
\* Data.Less, and every Keys[i] the key of the item at i.
C19_SortedWithTieBreak ==
    (alg = "SortWithIndex" /\ spc \in {"returned", "panicked"}) =>
        /\ spc = "returned"
        /\ \A i \in 1..(DataLen(data) - 1) :
              /\ ~KeyLess(data[i].key, data[i - 1].key)
              /\ data[i].key = data[i - 1].key => ~KeyLess(data[i].item, data[i - 1].item)
        /\ \A i \in DOMAIN data : data[i].key = StringKey(data[i].item)

-----------------------------------------------------------------------------
(* Properties of the keys of the floats *)

\* the exponent of f is all ones
maxExponent(bits, f) ==
    IF bits = 32 THEN f[1] % 128 = 127 /\ f[2] >= 128
    ELSE f[1] % 128 = 127 /\ f[2] >= 240

\* the mantissa of f is 0
zeroMantissa(bits, f) ==
    IF bits = 32 THEN f[2] % 128 = 0 /\ f[3] = 0 /\ f[4] = 0
    ELSE f[2] % 16 = 0 /\ \A i \in 3..8 : f[i] = 0

IsNaN(bits, f) == maxExponent(bits, f) /\ ~zeroMantissa(bits, f)

Negative(f) == f[1] >= 128

\* f with its sign bit cleared: of two numbers that are not negative, the
\* smaller has the smaller bit pattern
Magnitude(f) == [f EXCEPT ![1] = @ % 128]

IsZero(f) == \A i \in DOMAIN f : Magnitude(f)[i] = 0

\* f < g as IEEE 754 has it: false when either is a NaN, and for -0 and +0
NumLess(bits, f, g) ==
    /\ ~IsNaN(bits, f) /\ ~IsNaN(bits, g)
    /\ CASE Negative(f) /\ Negative(g)   -> KeyLess(Magnitude(g), Magnitude(f))
         [] Negative(f) /\ ~Negative(g)  -> ~(IsZero(f) /\ IsZero(g))
         [] ~Negative(f) /\ Negative(g)  -> FALSE
         [] OTHER                        -> KeyLess(f, g)

\* C20: the keys are in the order of the numbers, and the key of a NaN, of
\* either sign, is above the key of everything that is not a NaN.
C20_NumbersInOrderNaNsLast ==
    less.keys # <<>> =>
        /\ NumLess(less.bits, less.f, less.g) => KeyLess(less.keys[1], less.keys[2])
        /\ (IsNaN(less.bits, less.f) /\ ~IsNaN(less.bits, less.g))
              => KeyLess(less.keys[2], less.keys[1])

-----------------------------------------------------------------------------
(* Properties of the radix passes *)

\* the passes of radixSortUint64 that got to the end of their permutation
Permuted == {rounds[k][2] : k \in {j \in 1..Len(rounds) : rounds[j][1] = "permuted"}}

\* the ranges that the loop of the passes at shift == 0 gave to qSort
Dupes == {<<rounds[k][2], rounds[k][3]>> : k \in {j \in 1..Len(rounds) : rounds[j][1] = "dupes"}}

\* C22 as stated: after the permutation of a pass at shift == 0, every bucket
\* that holds more than one item, bucket 0 too, is handed to qSort over its
\* own range, and nothing else is.
C22_EveryBucketToQSort ==
    (alg \in {"ByNumber", "SortWithIndex"} /\ spc # "idle") =>
        \A p \in Permuted :
            p.shift = 0 =>
                /\ \A i \in DOMAIN p.ends :
                      p.ends[i] - p.starts[i] > 1 => <<p.starts[i], p.ends[i]>> \in Dupes
                /\ \A r \in Dupes :
                      (p.a <= r[1] /\ r[2] <= p.b) =>
                          \E i \in DOMAIN p.ends : r = <<p.starts[i], p.ends[i]>>

\* the passes of radixSortUint64 that started again with another shift
Restarts == {k \in 1..Len(rounds) : rounds[k][1] = "restart"}

\* C23: radixSortUint64 sorts its range whatever the shift it is called
\* with, from 0 to 64-radix: when guessIntShift, whose sampling skipped the
\* one key that differs in a high bit, returned too low a shift, and when the
\* bits between a varying high bit and the varying low byte are constant; for
\* an array shorter than qSortCutoff guessIntShift returns 64-radix.
C23_SortsFromAnyShift ==
    /\ (alg \in {"ByNumber", "radixSortUint64"} /\ lessKind = "valid"
          /\ spc # "idle" /\ pending = <<>>) =>
            /\ SortedIn(data, range[1], range[2])
            /\ SameItems(data, input)
            /\ \A i \in DOMAIN data : i \notin range[1]..(range[2] - 1) => data[i] = input[i]
    /\ (alg = "ByNumber" /\ spc # "idle") =>
            /\ rounds[1][1] = "guessIntShift"
            /\ rounds[1][2] \in 0..(64 - radix)
            /\ DataLen(input) < qSortCutoff => rounds[1][2] = 64 - radix

C23_Witness ==
    /\ alg = "ByNumber" /\ input = BackArray /\ spc = "returned"
    /\ rounds[1] = <<"guessIntShift", 0>>
    /\ \E k \in Restarts : /\ rounds[k][2].shift = 0
                           /\ rounds[k][2].nextShift = 64 - radix
                           /\ rounds[k][2].b - rounds[k][2].a = BackLen
    /\ data # input
    /\ SortedIn(data, 0, BackLen)

\* the place of the highest 1 bit of diff, which is not 0: floor(log2 diff)
TopBit(diff) == CHOOSE e \in 0..63 : /\ Digit(diff, e) % 2 = 1
                                     /\ ShiftRight64(diff, e + 1) = Zero64

\* diff = min XOR max over the keys of a pass
DiffOf(keys) == Xor64(MinKey(keys), MaxKey(keys))

\* all the keys have the same bits at and above bit n
AgreeFrom(keys, n) == \A x, y \in keys : ShiftRight64(x, n) = ShiftRight64(y, n)

TooHigh(diff, shift) == ShiftRight64(diff, shift) = Zero64
TooLow(diff, shift) == ShiftRight64(diff, shift + radix) # Zero64

\* C24: a pass whose keys are not all equal takes another shift,
\* max(0, floor(log2 diff) - radix + 1), exactly when diff >> shift == 0 or
\* diff >> (shift+radix) != 0; at the new shift neither holds, so the pass
\* that follows on the same range permutes; and in every pass that permutes
\* all the keys of the range agree on every bit at or above shift+radix.
C24_RestartedOnce ==
    (alg \in {"ByNumber", "SortWithIndex", "radixSortUint64"} /\ spc # "idle") =>
        /\ \A k \in Restarts :
              LET r == rounds[k][2]
                  diff == DiffOf(r.keys)
                  floor == TopBit(diff) - radix + 1
              IN /\ diff # Zero64
                 /\ TooHigh(diff, r.shift) \/ TooLow(diff, r.shift)
                 /\ r.nextShift = IF floor < 0 THEN 0 ELSE floor
                 /\ ~TooHigh(diff, r.nextShift) /\ ~TooLow(diff, r.nextShift)
                 /\ k < Len(rounds)
                 /\ rounds[k + 1][1] = "permuted"
                 /\ rounds[k + 1][2].a = r.a /\ rounds[k + 1][2].b = r.b
                 /\ rounds[k + 1][2].shift = r.nextShift
        /\ \A p \in Permuted :
              /\ DiffOf(p.keys) # Zero64
              /\ ~TooHigh(DiffOf(p.keys), p.shift) /\ ~TooLow(DiffOf(p.keys), p.shift)
              /\ AgreeFrom(p.keys, p.shift + radix)

C24_Witness ==
    /\ alg = "radixSortUint64" /\ spc = "returned" /\ data # input
    /\ \E k \in Restarts : /\ TooHigh(DiffOf(rounds[k][2].keys), rounds[k][2].shift)
                           /\ rounds[k][2].shift = 64 - radix
                           /\ rounds[k][2].nextShift = 1

\* C25: in the permutation of a pass over [a, b), of radixSortUint64 and of
\* radixSortString/radixSortBytes, every index given to Swap is in [a, b);
\* the pass ends; when it has, the cursor of every bucket is at the bucket's
\* end, which it never passed (a cursor only moves up), and every item in the
\* region of bucket k has the digit k.
C25_PermutationInBounds ==
    spc # "idle" =>
        \A p \in Permuted :
            /\ \A k \in 1..Len(p.swaps) : /\ p.swaps[k][1] \in p.a..(p.b - 1)
                                           /\ p.swaps[k][2] \in p.a..(p.b - 1)
            /\ \A i \in DOMAIN p.ends : /\ p.starts[i] <= p.cursors[i]
                                         /\ p.cursors[i] = p.ends[i]
                                         /\ \A j \in p.starts[i]..(p.ends[i] - 1) : p.digits[j] = i
            /\ \A j \in p.a..(p.b - 1) : \E i \in DOMAIN p.ends : j \in p.starts[i]..(p.ends[i] - 1)

C25_Witness ==
    /\ alg = "ByString" /\ spc = "returned" /\ data # input
    /\ \E p \in Permuted : /\ Len(p.swaps) > 1
                           /\ p.b - p.a = MaxLen
                           /\ Cardinality({i \in DOMAIN p.ends : p.ends[i] > p.starts[i]}) > 1

\* the first passes of radixSortString/radixSortBytes that are over
Scanned == {rounds[k][2] : k \in {j \in 1..Len(rounds) : rounds[j][1] = "scanned"}}

RECURSIVE SumOf(_, _)
SumOf(f, todo) ==
    IF todo = {} THEN 0 ELSE f[FirstOf(todo)] + SumOf(f, todo \ {FirstOf(todo)})

\* C27: after the first pass of radixSortString/radixSortBytes at the
\* offset o over [a, b) the keys of length <= o are the keys of [a, shortEnd),
\* the keys of [shortEnd, b) are longer, each of these is counted once, under
\* its byte at o, so that the counts add up to b - shortEnd; and in the
\* result the short keys of the range are before its longer ones.
C27_ShortKeysFirst ==
    (alg \in {"ByString", "ByBytes"} /\ spc # "idle") =>
        \A s \in Scanned :
            /\ s.a <= s.shortEnd /\ s.shortEnd <= s.b
            /\ \A i \in s.a..(s.shortEnd - 1) : Len(s.keys[i]) <= s.offset
            /\ \A i \in s.shortEnd..(s.b - 1) : Len(s.keys[i]) > s.offset
            /\ \A v \in DOMAIN s.counts \cup {s.keys[i][s.offset + 1] : i \in s.shortEnd..(s.b - 1)} :
                  /\ v \in DOMAIN s.counts
                  /\ s.counts[v] = Cardinality({i \in s.shortEnd..(s.b - 1) :
                                                   s.keys[i][s.offset + 1] = v})
            /\ SumOf(s.counts, DOMAIN s.counts) = s.b - s.shortEnd
            /\ pending = <<>> =>
                  /\ \A i \in s.a..(s.shortEnd - 1) : Len(Key(data, i)) <= s.offset
                  /\ \A i \in s.shortEnd..(s.b - 1) : Len(Key(data, i)) > s.offset

C27_Witness ==
    /\ alg = "ByBytes" /\ spc = "returned" /\ data # input
    /\ \E s \in Scanned : /\ s.offset = 1
                          /\ s.shortEnd - s.a > 1
                          /\ s.b - s.shortEnd > 1
                          /\ Len(Key(input, s.a)) > s.offset

\* the calls of radixSortString/radixSortBytes
Calls29 == {k \in 1..Len(rounds) : rounds[k][1] = "call"}

\* C29: in every call of radixSortString/radixSortBytes that ByString or
\* ByBytes leads to, with a Less that agrees with Key, depth is offset, no
\* key of [a, b) is shorter than offset and all of them have the same first
\* offset bytes; so it is in the call that follows a first pass which found
\* one bucket only, made on what is left of the range with offset+1 and
\* depth+1 and no permutation.
C29_SharedPrefix ==
    (alg \in {"ByString", "ByBytes"} /\ lessKind = "valid" /\ spc # "idle") =>
        \A k \in Calls29 :
            LET c == rounds[k][2] IN
            /\ c.depth = c.offset
            /\ \A x \in c.keys : Len(x) >= c.offset
            /\ \A x, y \in c.keys : SubSeq(x, 1, c.offset) = SubSeq(y, 1, c.offset)
            /\ (k > 1 /\ rounds[k - 1][1] = "scanned") =>
                  /\ c.offset = rounds[k - 1][2].offset + 1
                  /\ c.a = rounds[k - 1][2].shortEnd
                  /\ c.b = rounds[k - 1][2].b

C29_Witness ==
    /\ alg = "ByString" /\ lessKind = "valid" /\ spc = "returned" /\ data # input
    /\ \E k \in Calls29 :
          /\ k > 1 /\ rounds[k - 1][1] = "scanned"
          /\ rounds[k][2].a > rounds[k - 1][2].a
          /\ rounds[k][2].offset = 2
          /\ rounds[k][2].b - rounds[k][2].a > 1

-----------------------------------------------------------------------------
(* Properties of doPivot *)

\* what doPivot returned, and the indexes its calls of Less were given
Returned == {k \in 1..Len(rounds) : rounds[k][1] = "returned"}
LessIndexes == UNION {{rounds[k][2], rounds[k][3]} :
                        k \in {j \in 1..Len(rounds) : rounds[j][1] = "Less"}}

\* C26: with a Less that is a strict weak order, doPivot(lo, hi) on a range
\* of two items or more returns midlo and midhi with lo <= midlo < midhi <=
\* hi; no Less and no Swap it calls is given an index outside [lo, hi); and
\* once its swaps are made the items of [lo, midlo) are below the pivot, those
\* of [midlo, midhi) neither below nor above it, those of [midhi, hi) above
\* it, the items outside the range are where they were, and the two ranges
\* quickSort goes on with, [lo, midlo) and [midhi, hi), are shorter than
\* [lo, hi).
C26_PivotPartitions ==
    (alg = "doPivot" /\ spc # "idle") =>
        /\ Returned = {Len(rounds)}
        /\ LET lo == range[1]
               hi == range[2]
               midlo == rounds[Len(rounds)][4]
               midhi == rounds[Len(rounds)][5]
           IN /\ rounds[Len(rounds)][2] = lo /\ rounds[Len(rounds)][3] = hi
              /\ lo <= midlo /\ midlo < midhi /\ midhi <= hi
              /\ midlo - lo < hi - lo /\ hi - midhi < hi - lo
              /\ LessIndexes \subseteq lo..(hi - 1)
              /\ \A k \in 1..Len(pending) :
                    pending[k][1] \in lo..(hi - 1) /\ pending[k][2] \in lo..(hi - 1)
              /\ pending = <<>> =>
                    /\ \A i \in lo..(midlo - 1) : Less(data, i, midlo)
                    /\ \A i \in midlo..(midhi - 1) :
                          ~Less(data, i, midlo) /\ ~Less(data, midlo, i)
                    /\ \A i \in midhi..(hi - 1) : Less(data, midlo, i)
                    /\ \A i \in (0..(DataLen(data) - 1)) \ (lo..(hi - 1)) : data[i] = input[i]
                    /\ SameItems(data, input)

\* doPivot has taken the ninther on a part of the long array and has put
\* items on all three sides; and it has split a range of two items
C26_Witness ==
    /\ alg = "doPivot" /\ spc = "returned" /\ pending = <<>> /\ data # input
    /\ range[2] - range[1] > 40 /\ range[1] > 0
    /\ range[1] < rounds[Len(rounds)][4]
    /\ rounds[Len(rounds)][5] - rounds[Len(rounds)][4] > 1
    /\ rounds[Len(rounds)][5] < range[2]

====
